---- MODULE Spec2Model ----
(***************************************************************************)
(* Word Puzzles Lab (src/src/App.tsx): the scoring function, the Wordle,   *)
(* Quordle and Streakle sessions, and the two randomized searches          *)
(* (generateTwoLetterPattern, buildBeePuzzle), as state machines.          *)
(*                                                                         *)
(* A word is a sequence of one-letter strings.  Indices of the source are  *)
(* 0-based; sequences here are 1-based, so source index i is i + 1 here.   *)
(* streakleCurrentIndex keeps the 0-based value of the source.             *)
(***************************************************************************)
EXTENDS Integers, Sequences, FiniteSets, TLC

VARIABLES
    gameMode,             \* the mode whose screen is shown
    lastOp,               \* history: outcome of the last handler that ran
    sGuess, sAnswer,      \* arguments of a call of scoreWordleGuess
    sResult, sPc,         \* its returned row, and whether it has returned
    wordleAnswer, wordleGuesses, wordleResults, wordleDone, wordleMessage,
    quordleAnswers, quordleGuesses, quordleResults, quordleWins, quordleDone,
    quordleMessage,
    streakleTargets, streakleStartWord, streakleCurrentIndex, streakleGuesses,
    streakleResults, streakleSolved, streakleDone, streakleMessage,
    pgCorpus,             \* argument of a call of generateTwoLetterPattern,
                          \* as a place of PatternCorpora
    pgPc,                 \* where the call is: "idle", "call", "loop", "done"
    pgAttempt,            \* its loop variable attempt
    pgFallback,           \* fallbackPattern and fallbackMatches
    pgResult,             \* its returned value
    pgPath,               \* history: the return statement that returned
    pgIterations,         \* history: number of loop bodies entered
    pgHist,               \* history: the patterns tried with two or more
                          \* matches, in the order they first came up
    beeDict,              \* argument of a call of buildBeePuzzle, as a place
                          \* of BeeDictionaries
    beePc,                \* where the call is: "idle", "call", "loop", "done"
    beeAttempt,           \* its loop variable attempt
    beeBest,              \* best
    beeResult,            \* its returned value
    beeIterations,        \* history: number of loop bodies entered
    beeHives,             \* history: number of hives whose valid list was built
    beeFirsts,            \* history: the hives built within the density cap,
                          \* each the first that came up with its valid count
    beeQualified,         \* history: a hive within the cap with 12 valid
                          \* words and a pangram has come up
    pickCorpus,           \* the corpus (words) of a start of a Quordle or
                          \* Streakle round, as a place of PickCorpora
    pickPc,               \* where the start is: "idle", "start", "quordle",
                          \* "streakle", "done"
    pickStart,            \* startWord
    pickPicked,           \* picked (Quordle), targets (Streakle)
    pickTick,             \* history: parity of the number of candidates drawn
    beeDictLoading, beeDictError,
    beeLetters, beeCenterLetter, beeValidWords, beePangrams, beeFoundWords,
    beeMessage,
    beeRaw,               \* history: raw of the last handleBeeSubmit
    huntPattern,          \* pattern, of the Pattern Hunt screen: NoObject
                          \* for null
    solutions, foundWords, patternMessage

scoreVars == <<sGuess, sAnswer, sResult, sPc>>
wordleVars ==
    <<wordleAnswer, wordleGuesses, wordleResults, wordleDone, wordleMessage>>
quordleVars ==
    <<quordleAnswers, quordleGuesses, quordleResults, quordleWins, quordleDone,
      quordleMessage>>
streakleVars ==
    <<streakleTargets, streakleStartWord, streakleCurrentIndex, streakleGuesses,
      streakleResults, streakleSolved, streakleDone, streakleMessage>>
patternVars ==
    <<pgCorpus, pgPc, pgAttempt, pgFallback, pgResult, pgPath, pgIterations,
      pgHist>>
beeVars ==
    <<beeDict, beePc, beeAttempt, beeBest, beeResult, beeIterations, beeHives,
      beeFirsts, beeQualified>>
pickVars == <<pickCorpus, pickPc, pickStart, pickPicked, pickTick>>
hiveVars ==
    <<beeDictLoading, beeDictError, beeLetters, beeCenterLetter, beeValidWords,
      beePangrams, beeFoundWords, beeMessage, beeRaw>>
huntVars == <<huntPattern, solutions, foundWords, patternMessage>>
genVars == <<patternVars, beeVars, pickVars, hiveVars, huntVars>>
vars ==
    <<gameMode, lastOp, scoreVars, wordleVars, quordleVars, streakleVars,
      genVars>>

(***************************************************************************)
(* Bounds of the model.                                                    *)
(***************************************************************************)
\* scoreWordleGuess is applied to all pairs of words of length 1..MaxLen
\* over the first NumLetters letters of ScoreLetters (and to the two pairs
\* of the source's own tests).
MaxLen == 3
NumLetters == 3
\* The words that Math.random selects in a new round follow the corpus order
\* rotated by r places, each word drawn twice in a row: r < NumDraws for a
\* Streakle round, r < NumQuordleDraws for a Quordle round.
NumDraws == 3
NumQuordleDraws == 1
\* generateTwoLetterPattern is called with the first NumPatternCorpora of
\* PatternCorpora, buildBeePuzzle with the first NumBeeDicts of
\* BeeDictionaries; shuffleArray returns one of NumShuffles orders.
NumPatternCorpora == 5
NumBeeDicts == 4
NumShuffles == 1
\* A round is started with the first NumPickCorpora of PickCorpora.
NumPickCorpora == 5

(***************************************************************************)
(* Program constants.                                                      *)
(***************************************************************************)
WORD_LEN == 5
WORDLE_MAX_GUESSES == 6
QUORDLE_MAX_GUESSES == 9
QUORDLE_BOARDS == 4
STREAKLE_MAX_GUESSES == 8
STREAKLE_TARGETS == 3
MIN_MATCHES == 3
MAX_MATCHES == 15
MAX_PATTERN_ATTEMPTS == 5000
BEE_MAX_WORDS == 100
MAX_BEE_ATTEMPTS == 600
BEE_MIN_VALID == 12
BEE_LETTERS == 7
BEE_MIN_WORD_LEN == 4

\* null of the source
Null == "null"
\* guessArr[i] past the end of the guess: undefined
Undefined == "undefined"

\* null of the source where the value, when there is one, is an object: the
\* empty sequence, and an object x is the one-element sequence <<x>>
NoObject == <<>>

Min(a, b) == IF a < b THEN a ELSE b

(***************************************************************************)
(* The corpus (words / wordSet of the source, loaded and normalised by the *)
(* excluded loading layer) and the words a player types.                   *)
(***************************************************************************)
words ==
    << <<"C","R","A","N","E">>, <<"C","R","A","T","E">>,
       <<"T","R","A","C","E">>, <<"L","E","V","E","L">> >>

wordSet == {words[i] : i \in 1..Len(words)}

\* raw, after trim().toUpperCase(): the corpus words, a five-letter word
\* that is not in the corpus, and a word of another length.
TypedWords == wordSet \cup { <<"R","A","C","E","R">>, <<"C","A","T">> }

ScoreLetters == <<"A", "P", "L", "E", "R", "T">>

Letters ==
    {ScoreLetters[i] : i \in 1..Len(ScoreLetters)} \cup
    UNION {{w[i] : i \in 1..Len(w)} : w \in TypedWords}

(***************************************************************************)
(* scoreWordleGuess                                                        *)
(***************************************************************************)
GuessAt(guess, i) == IF i <= Len(guess) THEN guess[i] ELSE Undefined

\* remainingCounts[ch] || 0, and remainingCounts[ch] > 0 (false for a key
\* that was never set, and for undefined)
CountOf(counts, ch) == IF ch \in DOMAIN counts THEN counts[ch] ELSE 0

\* Variant of FirstPass that tallies every letter of the answer, the exactly
\* matched ones too.
RECURSIVE FirstPassCountsAll(_, _, _, _)
FirstPassCountsAll(guess, answer, i, st) ==
    IF i > Len(answer) THEN st
    ELSE IF GuessAt(guess, i) = answer[i]
         THEN FirstPassCountsAll(guess, answer, i + 1,
                                 [st EXCEPT !.result[i] = "correct",
                                            !.counts[answer[i]] = @ + 1])
         ELSE FirstPassCountsAll(guess, answer, i + 1,
                                 [st EXCEPT !.counts[answer[i]] = @ + 1])

\* First pass: mark exact matches and count leftovers in the answer
RECURSIVE FirstPass(_, _, _, _)
FirstPass(guess, answer, i, st) ==
    IF i > Len(answer) THEN st
    ELSE IF GuessAt(guess, i) = answer[i]
         THEN FirstPass(guess, answer, i + 1,
                        [st EXCEPT !.result[i] = "correct"])
         ELSE FirstPass(guess, answer, i + 1,
                        [st EXCEPT !.counts[answer[i]] = @ + 1])

\* Variant of SecondPass that does not decrement the remaining count.
RECURSIVE SecondPassNoDecrement(_, _, _, _)
SecondPassNoDecrement(guess, answer, i, st) ==
    IF i > Len(answer) THEN st
    ELSE IF st.result[i] = "correct"
         THEN SecondPassNoDecrement(guess, answer, i + 1, st)
         ELSE IF CountOf(st.counts, GuessAt(guess, i)) > 0
              THEN SecondPassNoDecrement(guess, answer, i + 1,
                                         [st EXCEPT !.result[i] = "present"])
              ELSE SecondPassNoDecrement(guess, answer, i + 1, st)

\* Variant of SecondPass that marks a leftover letter correct.
RECURSIVE SecondPassMarksCorrect(_, _, _, _)
SecondPassMarksCorrect(guess, answer, i, st) ==
    IF i > Len(answer) THEN st
    ELSE IF st.result[i] = "correct"
         THEN SecondPassMarksCorrect(guess, answer, i + 1, st)
         ELSE IF CountOf(st.counts, GuessAt(guess, i)) > 0
              THEN SecondPassMarksCorrect(guess, answer, i + 1,
                        [st EXCEPT !.result[i] = "correct",
                                   !.counts[GuessAt(guess, i)] = @ - 1])
              ELSE SecondPassMarksCorrect(guess, answer, i + 1, st)

\* Variant of SecondPass that asks for more than one remaining occurrence.
RECURSIVE SecondPassStrict(_, _, _, _)
SecondPassStrict(guess, answer, i, st) ==
    IF i > Len(answer) THEN st
    ELSE IF st.result[i] = "correct"
         THEN SecondPassStrict(guess, answer, i + 1, st)
         ELSE IF CountOf(st.counts, GuessAt(guess, i)) > 1
              THEN SecondPassStrict(guess, answer, i + 1,
                        [st EXCEPT !.result[i] = "present",
                                   !.counts[GuessAt(guess, i)] = @ - 1])
              ELSE SecondPassStrict(guess, answer, i + 1, st)

\* Second pass: mark present vs absent
RECURSIVE SecondPass(_, _, _, _)
SecondPass(guess, answer, i, st) ==
    IF i > Len(answer) THEN st
    ELSE IF st.result[i] = "correct"
         THEN SecondPass(guess, answer, i + 1, st)
         ELSE IF CountOf(st.counts, GuessAt(guess, i)) > 0
              THEN SecondPass(guess, answer, i + 1,
                              [st EXCEPT !.result[i] = "present",
                                         !.counts[GuessAt(guess, i)] = @ - 1])
              ELSE SecondPass(guess, answer, i + 1, st)

\* Variant of scoreWordleGuess that returns after the first pass.
scoreWordleGuessFirstPassOnly(guess, answer) ==
    FirstPass(guess, answer, 1,
        [result |-> [i \in 1..Len(answer) |-> "absent"],
         counts |-> [ch \in Letters |-> 0]]).result

scoreWordleGuess(guess, answer) ==
    SecondPass(guess, answer, 1,
        FirstPass(guess, answer, 1,
            [result |-> [i \in 1..Len(answer) |-> "absent"],
             counts |-> [ch \in Letters |-> 0]])).result

\* scoreWordleGuess on the words that pass the length and wordSet checks of
\* the sessions, computed once
ScoreTable ==
    [guess \in wordSet |-> [answer \in wordSet |-> scoreWordleGuess(guess, answer)]]

Score(guess, answer) == ScoreTable[guess][answer]

(***************************************************************************)
(* Calls of scoreWordleGuess on bounded inputs.                            *)
(***************************************************************************)
Alphabet == {ScoreLetters[i] : i \in 1..Min(NumLetters, Len(ScoreLetters))}

WordsOfLen(n) == [1..n -> Alphabet]

\* the pairs of runInternalTests
TestPairs ==
    { << <<"A","P","P","L","E">>, <<"A","P","P","L","E">> >>,
      << <<"A","L","E","R","T">>, <<"L","A","T","E","R">> >> }

ScorePairs ==
    TestPairs \cup
    UNION {WordsOfLen(n) \X WordsOfLen(n) : n \in 1..MaxLen}

ScoreIdle ==
    /\ sGuess = <<>>
    /\ sAnswer = <<>>
    /\ sResult = <<>>
    /\ sPc = "idle"

ScoreInit ==
    /\ \E p \in ScorePairs : sGuess = p[1] /\ sAnswer = p[2]
    /\ sResult = <<>>
    /\ sPc = "call"

CallScore ==
    /\ sPc = "call"
    /\ sResult' = scoreWordleGuess(sGuess, sAnswer)
    /\ sPc' = "done"
    /\ UNCHANGED <<sGuess, sAnswer, gameMode, lastOp, wordleVars, quordleVars,
                   streakleVars, genVars>>

(***************************************************************************)
(* Wordle session                                                          *)
(***************************************************************************)
\* useState initial values
WordleIdle ==
    /\ wordleAnswer = Null
    /\ wordleGuesses = <<>>
    /\ wordleResults = <<>>
    /\ wordleDone = FALSE
    /\ wordleMessage = ""

startNewWordleGame ==
    /\ gameMode = "wordle"
    /\ Len(words) # 0
    /\ \E answer \in wordSet : wordleAnswer' = answer
    /\ wordleGuesses' = <<>>
    /\ wordleResults' = <<>>
    /\ wordleMessage' = ""
    /\ wordleDone' = FALSE
    /\ lastOp' = "new"
    /\ UNCHANGED <<gameMode, genVars, scoreVars, quordleVars, streakleVars>>

\* Variant of WordleOutOfGuesses that is off by one.
WordleOutOfGuessesLate(newGuesses) == Len(newGuesses) > WORDLE_MAX_GUESSES

\* newGuesses.length >= 6
WordleOutOfGuesses(newGuesses) == Len(newGuesses) >= WORDLE_MAX_GUESSES

\* what the handler does once the guess has passed every check
\* Variant of WordleAccept that puts the guess and its row first.
WordleAcceptPrepends(raw) ==
    /\ wordleGuesses' = <<raw>> \o wordleGuesses
    /\ wordleResults' = <<Score(raw, wordleAnswer)>> \o wordleResults
    /\ IF raw = wordleAnswer
       THEN wordleDone' = TRUE /\ wordleMessage' = "solved"
       ELSE IF WordleOutOfGuesses(Append(wordleGuesses, raw))
            THEN wordleDone' = TRUE /\ wordleMessage' = "outOfGuesses"
            ELSE wordleDone' = wordleDone /\ wordleMessage' = "guessesLeft"
    /\ lastOp' = "accepted"
    /\ UNCHANGED wordleAnswer

WordleAccept(raw) ==
    LET score == Score(raw, wordleAnswer)
        newGuesses == Append(wordleGuesses, raw)
        newResults == Append(wordleResults, score)
    IN  /\ wordleGuesses' = newGuesses
        /\ wordleResults' = newResults
        /\ IF raw = wordleAnswer
           THEN wordleDone' = TRUE /\ wordleMessage' = "solved"
           ELSE IF WordleOutOfGuesses(newGuesses)
                THEN wordleDone' = TRUE /\ wordleMessage' = "outOfGuesses"
                ELSE wordleDone' = wordleDone /\ wordleMessage' = "guessesLeft"
        /\ lastOp' = "accepted"
        /\ UNCHANGED wordleAnswer

WordleReject(reason) ==
    /\ wordleMessage' = reason
    /\ lastOp' = "rejected"
    /\ UNCHANGED <<wordleAnswer, wordleGuesses, wordleResults, wordleDone>>

\* Variant of handleWordleSubmit without the check of wordleDone.
handleWordleSubmitNoDoneCheck(raw) ==
    /\ gameMode = "wordle"
    /\ IF wordleAnswer = Null
       THEN lastOp' = "noGame" /\ UNCHANGED wordleVars
       ELSE IF Len(raw) # WORD_LEN
       THEN WordleReject("length")
       ELSE IF raw \notin wordSet
       THEN WordleReject("notInList")
       ELSE IF Len(wordleGuesses) >= WORDLE_MAX_GUESSES
       THEN WordleReject("noGuessesLeft")
       ELSE WordleAccept(raw)
    /\ UNCHANGED <<gameMode, genVars, scoreVars, quordleVars, streakleVars>>

handleWordleSubmit(raw) ==
    /\ gameMode = "wordle"
    /\ IF wordleAnswer = Null
       THEN lastOp' = "noGame" /\ UNCHANGED wordleVars
       ELSE IF wordleDone
       THEN lastOp' = "ignored" /\ UNCHANGED wordleVars
       ELSE IF Len(raw) # WORD_LEN
       THEN WordleReject("length")
       ELSE IF raw \notin wordSet
       THEN WordleReject("notInList")
       ELSE IF Len(wordleGuesses) >= WORDLE_MAX_GUESSES
       THEN WordleReject("noGuessesLeft")
       ELSE WordleAccept(raw)
    /\ UNCHANGED <<gameMode, genVars, scoreVars, quordleVars, streakleVars>>

NextWordle ==
    \/ startNewWordleGame
    \/ \E raw \in TypedWords : handleWordleSubmit(raw)

(***************************************************************************)
(* Quordle session                                                         *)
(***************************************************************************)
Boards == 1..QUORDLE_BOARDS

QuordleIdle ==
    /\ quordleAnswers = Null
    /\ quordleGuesses = <<>>
    /\ quordleResults = <<>>
    /\ quordleDone = FALSE
    /\ quordleWins = [b \in Boards |-> FALSE]
    /\ quordleMessage = ""

\* the corpus order rotated by r places
Rotation(r) == [i \in 1..Len(words) |-> words[((i + r - 1) % Len(words)) + 1]]

\* words[Math.floor(Math.random() * words.length)], call after call
RandomStream(r) ==
    [k \in 1..(2 * Len(words)) |-> Rotation(r)[(k + 1) \div 2]]

\* picked.includes(candidate), newGuesses.includes(t)
Includes(guesses, w) == \E g \in 1..Len(guesses) : guesses[g] = w

\* the loop "while (picked.length < 4)", its candidates taken from the
\* stream from place k on
RECURSIVE QuordlePick(_, _, _)
QuordlePick(stream, k, picked) ==
    IF Len(picked) >= QUORDLE_BOARDS \/ k > Len(stream) THEN picked
    ELSE IF ~Includes(picked, stream[k])
         THEN QuordlePick(stream, k + 1, Append(picked, stream[k]))
         ELSE QuordlePick(stream, k + 1, picked)

\* The results of the loop that draws candidates until it has picked
\* QUORDLE_BOARDS different words.
QuordleDraws ==
    {picked \in {QuordlePick(RandomStream(r), 1, <<>>) :
                    r \in 0..(NumQuordleDraws - 1)} :
        Len(picked) = QUORDLE_BOARDS}

startNewQuordleGame ==
    /\ gameMode = "quordle"
    /\ Len(words) # 0
    /\ \E picked \in QuordleDraws : quordleAnswers' = picked
    /\ quordleGuesses' = <<>>
    /\ quordleResults' = [b \in Boards |-> <<>>]
    /\ quordleMessage' = ""
    /\ quordleDone' = FALSE
    /\ quordleWins' = [b \in Boards |-> FALSE]
    /\ lastOp' = "new"
    /\ UNCHANGED <<gameMode, genVars, scoreVars, wordleVars, streakleVars>>

\* Variant of QuordleNewWin that recomputes the flag from this guess alone.
QuordleNewWinNotSticky(raw, boardIndex) == raw = quordleAnswers[boardIndex]

\* Variant of QuordleNewWin that sets the flag when the guess is the answer
\* of any board.
QuordleNewWinAnyBoard(raw, boardIndex) ==
    IF ~quordleWins[boardIndex] /\ (\E b \in 1..Len(quordleAnswers) : raw = quordleAnswers[b])
    THEN TRUE
    ELSE quordleWins[boardIndex]

\* the body of the loop over boardIndex: the new win flag of one board
QuordleNewWin(raw, boardIndex) ==
    IF ~quordleWins[boardIndex] /\ raw = quordleAnswers[boardIndex]
    THEN TRUE
    ELSE quordleWins[boardIndex]

\* Variant of QuordleOutOfGuesses that is off by one.
QuordleOutOfGuessesLate(newGuesses) == Len(newGuesses) > QUORDLE_MAX_GUESSES

\* newGuesses.length >= 9
QuordleOutOfGuesses(newGuesses) == Len(newGuesses) >= QUORDLE_MAX_GUESSES

QuordleAccept(raw) ==
    LET newGuesses == Append(quordleGuesses, raw)
        base == IF Len(quordleResults) = QUORDLE_BOARDS
                THEN quordleResults
                ELSE [b \in Boards |-> <<>>]
        newResults ==
            [b \in Boards |->
                Append(base[b], Score(raw, quordleAnswers[b]))]
        newWins == [b \in Boards |-> QuordleNewWin(raw, b)]
        allSolved == \A b \in Boards : newWins[b]
    IN  /\ quordleGuesses' = newGuesses
        /\ quordleResults' = newResults
        /\ quordleWins' = newWins
        /\ IF allSolved
           THEN quordleDone' = TRUE /\ quordleMessage' = "solved"
           ELSE IF QuordleOutOfGuesses(newGuesses)
                THEN quordleDone' = TRUE /\ quordleMessage' = "outOfGuesses"
                ELSE quordleDone' = quordleDone /\ quordleMessage' = "guessesLeft"
        /\ lastOp' = "accepted"
        /\ UNCHANGED quordleAnswers

QuordleReject(reason) ==
    /\ quordleMessage' = reason
    /\ lastOp' = "rejected"
    /\ UNCHANGED <<quordleAnswers, quordleGuesses, quordleResults, quordleWins,
                   quordleDone>>

handleQuordleSubmit(raw) ==
    /\ gameMode = "quordle"
    /\ IF quordleAnswers = Null
       THEN lastOp' = "noGame" /\ UNCHANGED quordleVars
       ELSE IF quordleDone
       THEN lastOp' = "ignored" /\ UNCHANGED quordleVars
       ELSE IF Len(raw) # WORD_LEN
       THEN QuordleReject("length")
       ELSE IF raw \notin wordSet
       THEN QuordleReject("notInList")
       ELSE IF Len(quordleGuesses) >= QUORDLE_MAX_GUESSES
       THEN QuordleReject("noGuessesLeft")
       ELSE QuordleAccept(raw)
    /\ UNCHANGED <<gameMode, genVars, scoreVars, wordleVars, streakleVars>>

NextQuordle ==
    \/ startNewQuordleGame
    \/ \E raw \in TypedWords : handleQuordleSubmit(raw)

(***************************************************************************)
(* Streakle session                                                        *)
(***************************************************************************)
Targets == 1..STREAKLE_TARGETS

StreakleIdle ==
    /\ streakleTargets = Null
    /\ streakleStartWord = Null
    /\ streakleCurrentIndex = 0
    /\ streakleGuesses = <<>>
    /\ streakleResults = <<>>
    /\ streakleSolved = [t \in Targets |-> FALSE]
    /\ streakleDone = FALSE
    /\ streakleMessage = ""

\* Variant of computeStreakleResults that scores every row against the
\* first target.
computeStreakleResultsFirstTarget(guesses, targets) ==
    [t \in 1..Len(targets) |->
        [g \in 1..Len(guesses) |-> Score(guesses[g], targets[1])]]

computeStreakleResults(guesses, targets) ==
    [t \in 1..Len(targets) |->
        [g \in 1..Len(guesses) |-> Score(guesses[g], targets[t])]]

\* solved.findIndex((v) => !v), 0-based, -1 when every flag is set
RECURSIVE FindFirstUnsolved(_, _)
FindFirstUnsolved(solved, t) ==
    IF t > Len(solved) THEN -1
    ELSE IF ~solved[t] THEN t - 1
    ELSE FindFirstUnsolved(solved, t + 1)

\* Variant of StreaklePick without the comparison with the start word.
RECURSIVE StreaklePickAllowsStart(_, _, _, _)
StreaklePickAllowsStart(stream, k, startWord, targets) ==
    IF Len(targets) >= STREAKLE_TARGETS \/ k > Len(stream) THEN targets
    ELSE IF ~Includes(targets, stream[k])
         THEN StreaklePickAllowsStart(stream, k + 1, startWord,
                                      Append(targets, stream[k]))
         ELSE StreaklePickAllowsStart(stream, k + 1, startWord, targets)

\* the loop "while (targets.length < 3)", its candidates taken from the
\* stream from place k on
RECURSIVE StreaklePick(_, _, _, _)
StreaklePick(stream, k, startWord, targets) ==
    IF Len(targets) >= STREAKLE_TARGETS \/ k > Len(stream) THEN targets
    ELSE IF stream[k] # startWord /\ ~Includes(targets, stream[k])
         THEN StreaklePick(stream, k + 1, startWord, Append(targets, stream[k]))
         ELSE StreaklePick(stream, k + 1, startWord, targets)

\* The results of the draw of a start word and of the loop that draws
\* candidates until it has STREAKLE_TARGETS different targets, none of them
\* the start word.
StreakleDraws ==
    {d \in {[startWord |-> RandomStream(r)[1],
             targets |-> StreaklePick(RandomStream(r), 2, RandomStream(r)[1], <<>>)] :
                r \in 0..(NumDraws - 1)} :
        Len(d.targets) = STREAKLE_TARGETS}

startNewStreakleGame ==
    /\ gameMode = "streakle"
    /\ Len(words) # 0
    /\ \E d \in StreakleDraws :
        LET initialGuesses == <<d.startWord>>
            solved == [t \in Targets |-> d.targets[t] = d.startWord]
            nextIndex == FindFirstUnsolved(solved, 1)
            activeIndex == IF nextIndex = -1 THEN 0 ELSE nextIndex
            remaining == STREAKLE_MAX_GUESSES - Len(initialGuesses)
        IN  /\ streakleTargets' = d.targets
            /\ streakleStartWord' = d.startWord
            /\ streakleGuesses' = initialGuesses
            /\ streakleResults' = computeStreakleResults(initialGuesses, d.targets)
            /\ streakleSolved' = solved
            /\ streakleCurrentIndex' = activeIndex
            /\ streakleDone' = ((\A t \in Targets : solved[t]) \/ remaining <= 0)
            /\ streakleMessage' = "autoPlayed"
    /\ lastOp' = "new"
    /\ UNCHANGED <<gameMode, genVars, scoreVars, wordleVars, quordleVars>>

\* Variant of LockRow that also locks the letters scored present.
LockRowLocksPresent(pattern, resultRow, guess) ==
    [col \in 1..Len(pattern) |->
        IF col <= Len(resultRow) /\ resultRow[col] \in {"correct", "present"}
        THEN guess[col]
        ELSE pattern[col]]

\* one row of the loop of streakleLockedPattern: every column that the row
\* scored correct is set to the letter of that row's guess
LockRow(pattern, resultRow, guess) ==
    [col \in 1..Len(pattern) |->
        IF col <= Len(resultRow) /\ resultRow[col] = "correct"
        THEN guess[col]
        ELSE pattern[col]]

RECURSIVE LockRows(_, _, _, _)
LockRows(pattern, boardResults, guesses, row) ==
    IF row > Len(boardResults) THEN pattern
    ELSE LockRows(
            IF row <= Len(guesses)
            THEN LockRow(pattern, boardResults[row], guesses[row])
            ELSE pattern,
            boardResults, guesses, row + 1)

\* Variant of streakleLockedPattern that reads the rows of the first target.
streakleLockedPatternFirstBoard ==
    IF streakleTargets = Null \/ Len(streakleTargets) = 0 THEN <<>>
    ELSE LockRows([col \in 1..WORD_LEN |-> "_"],
                  IF 1 <= Len(streakleResults) THEN streakleResults[1] ELSE <<>>,
                  streakleGuesses, 1)

streakleLockedPattern ==
    IF streakleTargets = Null \/ Len(streakleTargets) = 0 THEN <<>>
    ELSE LockRows([col \in 1..WORD_LEN |-> "_"],
                  IF streakleCurrentIndex + 1 <= Len(streakleResults)
                  THEN streakleResults[streakleCurrentIndex + 1]
                  ELSE <<>>,
                  streakleGuesses, 1)

\* Variant of LockViolated that expects a pattern of another length, so that
\* no lock is enforced.
LockViolatedWrongLength(raw) ==
    LET pattern == streakleLockedPattern
    IN  /\ Len(pattern) = WORD_LEN + 1
        /\ \E i \in 1..Len(pattern) : pattern[i] # "_" /\ raw[i] # pattern[i]

\* the check "Enforce locked greens": TRUE when the guess is refused
LockViolated(raw) ==
    LET pattern == streakleLockedPattern
    IN  /\ Len(pattern) = WORD_LEN
        /\ \E i \in 1..Len(pattern) : pattern[i] # "_" /\ raw[i] # pattern[i]

\* Variant of StreakleSolvedFlags that looks at the active target and the
\* new guess only.
StreakleSolvedActiveOnly(newGuesses) ==
    [t \in Targets |->
        IF t = streakleCurrentIndex + 1
        THEN newGuesses[Len(newGuesses)] = streakleTargets[t]
        ELSE streakleSolved[t]]

\* streakleTargets.map((t) => newGuesses.includes(t))
StreakleSolvedFlags(newGuesses) ==
    [t \in Targets |-> Includes(newGuesses, streakleTargets[t])]

\* Variant of StreakleNextIndex that steps to the following target.
StreakleNextIndexStepsByOne(solved) ==
    IF \A t \in Targets : solved[t] THEN streakleCurrentIndex
    ELSE IF solved[streakleCurrentIndex + 1]
         THEN (IF streakleCurrentIndex + 1 < STREAKLE_TARGETS
               THEN streakleCurrentIndex + 1
               ELSE streakleCurrentIndex)
         ELSE streakleCurrentIndex

\* Variant of StreakleNextIndex that moves to the last unsolved target.
StreakleNextIndexLastUnsolved(solved) ==
    IF \A t \in Targets : solved[t] THEN streakleCurrentIndex
    ELSE IF solved[streakleCurrentIndex + 1]
         THEN (CHOOSE t \in Targets :
                   ~solved[t] /\ \A u \in Targets : u > t => solved[u]) - 1
         ELSE streakleCurrentIndex

\* nextTargetIndex
StreakleNextIndex(solved) ==
    LET nextIdx == FindFirstUnsolved(solved, 1)
    IN  IF \A t \in Targets : solved[t] THEN streakleCurrentIndex
        ELSE IF solved[streakleCurrentIndex + 1]
             THEN (IF nextIdx = -1 THEN streakleCurrentIndex ELSE nextIdx)
             ELSE streakleCurrentIndex

\* Variant of StreakleOutOfGuesses that is off by one.
StreakleOutOfGuessesLate(newGuesses) == Len(newGuesses) > STREAKLE_MAX_GUESSES

\* newGuesses.length >= 8
StreakleOutOfGuesses(newGuesses) == Len(newGuesses) >= STREAKLE_MAX_GUESSES

\* Variant of StreakleAccept whose test of the budget does not look at the
\* solved flags.
StreakleAcceptLossFirst(raw) ==
    LET newGuesses == Append(streakleGuesses, raw)
        newResults == computeStreakleResults(newGuesses, streakleTargets)
        solved == StreakleSolvedFlags(newGuesses)
        allSolved == \A t \in Targets : solved[t]
        nextTargetIndex == StreakleNextIndex(solved)
        outOfGuesses == StreakleOutOfGuesses(newGuesses)
    IN  /\ streakleGuesses' = newGuesses
        /\ streakleResults' = newResults
        /\ streakleSolved' = solved
        /\ streakleCurrentIndex' = nextTargetIndex
        /\ streakleMessage' =
              (IF outOfGuesses THEN "outOfGuesses"
               ELSE IF allSolved THEN "solved"
               ELSE IF solved[streakleCurrentIndex + 1] THEN "targetSolved"
               ELSE "guessesLeft")
        /\ streakleDone' = (allSolved \/ outOfGuesses)
        /\ lastOp' = "accepted"
        /\ UNCHANGED <<streakleTargets, streakleStartWord>>

StreakleAccept(raw) ==
    LET newGuesses == Append(streakleGuesses, raw)
        newResults == computeStreakleResults(newGuesses, streakleTargets)
        solved == StreakleSolvedFlags(newGuesses)
        allSolved == \A t \in Targets : solved[t]
        nextTargetIndex == StreakleNextIndex(solved)
        outOfGuesses == StreakleOutOfGuesses(newGuesses) /\ ~allSolved
    IN  /\ streakleGuesses' = newGuesses
        /\ streakleResults' = newResults
        /\ streakleSolved' = solved
        /\ streakleCurrentIndex' = nextTargetIndex
        /\ streakleMessage' =
              (IF outOfGuesses THEN "outOfGuesses"
               ELSE IF allSolved THEN "solved"
               ELSE IF solved[streakleCurrentIndex + 1] THEN "targetSolved"
               ELSE "guessesLeft")
        /\ streakleDone' = (allSolved \/ outOfGuesses)
        /\ lastOp' = "accepted"
        /\ UNCHANGED <<streakleTargets, streakleStartWord>>

\* Variant of StreakleReject that ends the session on every rejection, as
\* the "No guesses left" branch does.
StreakleRejectEnds(reason, done) ==
    /\ streakleMessage' = reason
    /\ streakleDone' = TRUE
    /\ lastOp' = "rejected"
    /\ UNCHANGED <<streakleTargets, streakleStartWord, streakleCurrentIndex,
                   streakleGuesses, streakleResults, streakleSolved>>

\* a rejection: the message is set and the handler returns; done is the
\* value the branch leaves in streakleDone
StreakleReject(reason, done) ==
    /\ streakleMessage' = reason
    /\ streakleDone' = done
    /\ lastOp' = "rejected"
    /\ UNCHANGED <<streakleTargets, streakleStartWord, streakleCurrentIndex,
                   streakleGuesses, streakleResults, streakleSolved>>

\* Variant of handleStreakleSubmit without the check of streakleDone.
handleStreakleSubmitNoDoneCheck(raw) ==
    /\ gameMode = "streakle"
    /\ IF streakleTargets = Null
       THEN lastOp' = "noGame" /\ UNCHANGED streakleVars
       ELSE IF Len(raw) # WORD_LEN
       THEN StreakleReject("length", streakleDone)
       ELSE IF raw \notin wordSet
       THEN StreakleReject("notInList", streakleDone)
       ELSE IF Len(streakleGuesses) >= STREAKLE_MAX_GUESSES
       THEN StreakleReject("noGuessesLeft", TRUE)
       ELSE IF LockViolated(raw)
       THEN StreakleReject("locked", streakleDone)
       ELSE StreakleAccept(raw)
    /\ UNCHANGED <<gameMode, genVars, scoreVars, wordleVars, quordleVars>>

handleStreakleSubmit(raw) ==
    /\ gameMode = "streakle"
    /\ IF streakleTargets = Null
       THEN lastOp' = "noGame" /\ UNCHANGED streakleVars
       ELSE IF streakleDone
       THEN lastOp' = "ignored" /\ UNCHANGED streakleVars
       ELSE IF Len(raw) # WORD_LEN
       THEN StreakleReject("length", streakleDone)
       ELSE IF raw \notin wordSet
       THEN StreakleReject("notInList", streakleDone)
       ELSE IF Len(streakleGuesses) >= STREAKLE_MAX_GUESSES
       THEN StreakleReject("noGuessesLeft", TRUE)
       ELSE IF LockViolated(raw)
       THEN StreakleReject("locked", streakleDone)
       ELSE StreakleAccept(raw)
    /\ UNCHANGED <<gameMode, genVars, scoreVars, wordleVars, quordleVars>>

NextStreakle ==
    \/ startNewStreakleGame
    \/ \E raw \in TypedWords : handleStreakleSubmit(raw)

(***************************************************************************)
(* generateTwoLetterPattern                                                *)
(***************************************************************************)
\* The middle letters of the words of the large corpus.
MidLetters ==
    <<"A","B","C","D","E","F","G","H","I","J","K","L","M","N","O","P","Q">>

\* The corpora generateTwoLetterPattern is called with, the first
\* NumPatternCorpora of this list: the empty corpus; the corpus of the
\* source's own tests; a corpus of two-letter words; a corpus in which no
\* pattern matches two words; a corpus whose patterns match 17, 16 and 2
\* words; a corpus of one-letter words.
PatternCorpora ==
    << <<>>,
       << <<"A","P","P","L","E">>, <<"A","M","P","L","E">>,
          <<"A","M","P","L","E">>, <<"A","X","I","O","M">> >>,
       << <<"A","B">>, <<"C","D">> >>,
       << <<"A","B","C">>, <<"D","E","F">> >>,
       [k \in 1..17 |-> <<"A", MidLetters[k], "B">>]
          \o [k \in 1..16 |-> <<"C", MidLetters[k], "D">>]
          \o [k \in 1..2 |-> <<"E", MidLetters[k], "F">>],
       << <<"A">>, <<"B">> >> >>

Abs(n) == IF n < 0 THEN -n ELSE n

\* Variant of matchesPattern whose loop stops before the last slot.
matchesPatternIgnoresLast(word, patternArr) ==
    /\ Len(word) = Len(patternArr)
    /\ \A i \in 1..(Len(patternArr) - 1) :
          patternArr[i] # "_" => word[i] = patternArr[i]

matchesPattern(word, patternArr) ==
    /\ Len(word) = Len(patternArr)
    /\ \A i \in 1..Len(patternArr) :
          patternArr[i] # "_" => word[i] = patternArr[i]

\* for (const w of words) if (matchesPattern(w, patternArr)) matches.push(w)
MatchesOf(ws, patternArr) ==
    SelectSeq(ws, LAMBDA w : matchesPattern(w, patternArr))

\* Variant of Candidates that keeps the positions next to first.
CandidatesWithAdjacent(first, wordLen) ==
    {i \in 0..(wordLen - 1) : i # first}

\* candidates: the positions (0-based) the second slot is drawn from
Candidates(first, wordLen) ==
    {i \in 0..(wordLen - 1) : i # first /\ ~(Abs(i - first) <= 1)}

\* patternArr of one attempt
PatternOf(base, first, second, wordLen) ==
    [i \in 1..wordLen |->
        IF i = first + 1 \/ i = second + 1 THEN base[i] ELSE "_"]

\* What one pass through the loop body can come to, over every choice of
\* base, first and second that Math.random can make: it skips when first
\* has no candidates, and else it builds a pattern and its matches.
AttemptOutcomes(ws) ==
    LET wordLen == Len(ws[1])
    IN  {[skip |-> TRUE, patternArr |-> <<>>, matches |-> <<>>] :
            first \in {f \in 0..(wordLen - 1) : Candidates(f, wordLen) = {}}}
        \cup
        UNION {UNION {
            {[skip |-> FALSE,
              patternArr |-> PatternOf(ws[b], first, second, wordLen),
              matches |-> MatchesOf(ws, PatternOf(ws[b], first, second, wordLen))] :
                second \in Candidates(first, wordLen)} :
            first \in 0..(wordLen - 1)} : b \in 1..Len(ws)}

\* AttemptOutcomes of each corpus, computed once
OutcomeTable ==
    [c \in 1..Len(PatternCorpora) |->
        IF Len(PatternCorpora[c]) = 0 THEN {}
        ELSE AttemptOutcomes(PatternCorpora[c])]

pgWords == PatternCorpora[pgCorpus]

PatternIdle ==
    /\ pgCorpus = 0
    /\ pgPc = "idle"
    /\ pgAttempt = 0
    /\ pgFallback = NoObject
    /\ pgResult = Null
    /\ pgPath = ""
    /\ pgIterations = 0
    /\ pgHist = <<>>

\* a call with one of the corpora
PatternInit ==
    /\ pgCorpus \in 1..NumPatternCorpora
    /\ pgPc = "call"
    /\ pgAttempt = 0
    /\ pgFallback = NoObject
    /\ pgResult = Null
    /\ pgPath = ""
    /\ pgIterations = 0
    /\ pgHist = <<>>

\* count >= MIN_MATCHES && count <= MAX_MATCHES
InBounds(count) == count >= MIN_MATCHES /\ count <= MAX_MATCHES

\* |count - target| with target = (MIN_MATCHES + MAX_MATCHES) / 2, doubled so
\* that it is a whole number whatever the two constants are
Diff2(count) == Abs(2 * count - (MIN_MATCHES + MAX_MATCHES))

\* Variant of FallbackAfter that also replaces the fallback on a tie.
FallbackAfterTieReplaces(o) ==
    IF Len(o.matches) >= 2
    THEN IF pgFallback = NoObject
         THEN <<[patternArr |-> o.patternArr, matches |-> o.matches]>>
         ELSE IF Diff2(Len(o.matches)) <= Diff2(Len(pgFallback[1].matches))
              THEN <<[patternArr |-> o.patternArr, matches |-> o.matches]>>
              ELSE pgFallback
    ELSE pgFallback

\* "Track a fallback closest to target": the fallback after an attempt that
\* was not accepted
FallbackAfter(o) ==
    IF Len(o.matches) >= 2
    THEN IF pgFallback = NoObject
         THEN <<[patternArr |-> o.patternArr, matches |-> o.matches]>>
         ELSE IF Diff2(Len(o.matches)) < Diff2(Len(pgFallback[1].matches))
              THEN <<[patternArr |-> o.patternArr, matches |-> o.matches]>>
              ELSE pgFallback
    ELSE pgFallback

\* The history of patterns after an attempt that built pattern o.
HistAfter(o) ==
    IF Len(o.matches) >= 2 /\ ~Includes(pgHist, o.patternArr)
    THEN Append(pgHist, o.patternArr)
    ELSE pgHist

\* the test of the corpus at the head of the function
PgEnter ==
    /\ pgPc = "call"
    /\ IF Len(pgWords) = 0
       THEN /\ pgResult' = [patternArr |-> <<>>, matches |-> <<>>]
            /\ pgPath' = "empty"
            /\ pgPc' = "done"
       ELSE /\ pgPc' = "loop"
            /\ UNCHANGED <<pgResult, pgPath>>
    /\ UNCHANGED <<pgCorpus, pgAttempt, pgFallback, pgIterations, pgHist>>
    /\ UNCHANGED <<gameMode, lastOp, scoreVars, wordleVars, quordleVars,
                   streakleVars, beeVars, pickVars, hiveVars,
                   huntVars>>

\* one pass through the loop body
PgAttempt ==
    /\ pgPc = "loop"
    /\ pgAttempt < MAX_PATTERN_ATTEMPTS
    /\ pgIterations' = pgIterations + 1
    /\ \E o \in OutcomeTable[pgCorpus] :
          IF o.skip
          THEN /\ pgAttempt' = pgAttempt + 1
               /\ UNCHANGED <<pgFallback, pgResult, pgPath, pgPc, pgHist>>
          ELSE /\ pgHist' = HistAfter(o)
               /\ IF InBounds(Len(o.matches))
                  THEN /\ pgResult' = [patternArr |-> o.patternArr,
                                       matches |-> o.matches]
                       /\ pgPath' = "inBounds"
                       /\ pgPc' = "done"
                       /\ UNCHANGED <<pgAttempt, pgFallback>>
                  ELSE /\ pgFallback' = FallbackAfter(o)
                       /\ pgAttempt' = pgAttempt + 1
                       /\ UNCHANGED <<pgResult, pgPath, pgPc>>
    /\ UNCHANGED pgCorpus
    /\ UNCHANGED <<gameMode, lastOp, scoreVars, wordleVars, quordleVars,
                   streakleVars, beeVars, pickVars, hiveVars,
                   huntVars>>

\* "Last resort": the pattern derived from the first word
LastResortPattern(ws) ==
    LET wordLen == Len(ws[1])
    IN  [i \in 1..wordLen |->
            IF i = 1 THEN ws[1][1]
            ELSE IF wordLen > 2 /\ i = wordLen THEN ws[1][wordLen]
            ELSE "_"]

\* the end of the function, after the loop has run out
PgExit ==
    /\ pgPc = "loop"
    /\ ~(pgAttempt < MAX_PATTERN_ATTEMPTS)
    /\ IF pgFallback # NoObject
       THEN /\ pgResult' = pgFallback[1]
            /\ pgPath' = "fallback"
       ELSE /\ pgResult' =
                  [patternArr |-> LastResortPattern(pgWords),
                   matches |-> MatchesOf(pgWords, LastResortPattern(pgWords))]
            /\ pgPath' = "lastResort"
    /\ pgPc' = "done"
    /\ UNCHANGED <<pgCorpus, pgAttempt, pgFallback, pgIterations, pgHist>>
    /\ UNCHANGED <<gameMode, lastOp, scoreVars, wordleVars, quordleVars,
                   streakleVars, beeVars, pickVars, hiveVars,
                   huntVars>>

NextPattern == PgEnter \/ PgAttempt \/ PgExit

(***************************************************************************)
(* buildBeePuzzle                                                          *)
(***************************************************************************)
HiveLetters == <<"A","B","C","D","E","F","G">>

\* every word of four letters over the first four hive letters
FourLetterWords ==
    [n \in 1..256 |->
        <<HiveLetters[(((n - 1) \div 64) % 4) + 1],
          HiveLetters[(((n - 1) \div 16) % 4) + 1],
          HiveLetters[(((n - 1) \div 4) % 4) + 1],
          HiveLetters[((n - 1) % 4) + 1]>>]

\* The dictionaries buildBeePuzzle is called with, the first NumBeeDicts of
\* this list: one without a word of 7 distinct letters; one whose hives
\* have 3 valid words at most; one whose hives have 12 valid words when the
\* center is A or B; one whose hives have 176 valid words when the center
\* is one of A, B, C, D; one with a single word, of 7 distinct letters.
BeeDictionaries ==
    << << <<"A","B","C","D">>, <<"A","B","C","D","E","F">>,
          <<"A","A","B","B","C","C","D","D">> >>,
       << HiveLetters, <<"A","B","C","D">>, <<"G","F","E","D">>,
          <<"A","A","B","B","C","C","D","D">>, <<"A","B","C","H">> >>,
       <<HiveLetters>>
          \o [k \in 1..7 |-> <<"A","B","C",HiveLetters[k]>>]
          \o [k \in 1..4 |-> <<"A","B","D",HiveLetters[k]>>],
       <<HiveLetters>> \o FourLetterWords,
       << <<"B","C","D","E","F","G","H">> >> >>

\* word.includes(ch)
HasLetter(word, ch) == \E i \in 1..Len(word) : word[i] = ch

RECURSIVE UniqueFrom(_, _, _)
UniqueFrom(word, i, order) ==
    IF i > Len(word) THEN order
    ELSE UniqueFrom(word, i + 1,
                    IF HasLetter(order, word[i]) THEN order
                    ELSE Append(order, word[i]))

uniqueLetters(word) == UniqueFrom(word, 1, <<>>)

\* Variant of Slice that starts at the second element.
SliceDropsFirst(arr, n) == SubSeq(arr, 2, Min(Len(arr), n))

\* Variant of Slice that stops one element early.
SliceOneShort(arr, n) == SubSeq(arr, 1, Min(Len(arr), n - 1))

\* arr.slice(0, n)
Slice(arr, n) == SubSeq(arr, 1, Min(Len(arr), n))

\* Variant of isBeeWord that leaves out the test for the center letter.
isBeeWordAnyCenter(word, letters, center) ==
    /\ ~(Len(word) < BEE_MIN_WORD_LEN)
    /\ \A i \in 1..Len(word) : word[i] \in letters

\* Variant of isPangram that asks for as many letters as the hive has.
isPangramByLength(word, letters) == Len(word) >= Cardinality(letters)

isBeeWord(word, letters, center) ==
    /\ ~(Len(word) < BEE_MIN_WORD_LEN)
    /\ HasLetter(word, center)
    /\ \A i \in 1..Len(word) : word[i] \in letters

isPangram(word, letters) == \A l \in letters : HasLetter(word, l)

\* The orders shuffleArray returns: the rotations of its argument by fewer
\* than NumShuffles places.
Shuffles(arr) ==
    {[i \in 1..Len(arr) |-> arr[((i - 1 + r) % Len(arr)) + 1]] :
        r \in 0..(NumShuffles - 1)}

\* Variant of PangramCandidates that leaves out the count of distinct letters.
PangramCandidatesByLength(dictionary) ==
    SelectSeq(dictionary, LAMBDA w : Len(w) >= BEE_LETTERS)

\* dictionary.filter(uniqueLetters(w).length === 7 && w.length >= 7)
PangramCandidates(dictionary) ==
    SelectSeq(dictionary,
              LAMBDA w : Len(uniqueLetters(w)) = BEE_LETTERS /\ Len(w) >= BEE_LETTERS)

\* pangramCandidates of each dictionary, computed once
CandidateTable ==
    [d \in 1..Len(BeeDictionaries) |-> PangramCandidates(BeeDictionaries[d])]

\* current, for a base word, an order of its letters and a center
HiveOf(dictionary, shuffled, center) ==
    LET letterSet == {shuffled[i] : i \in 1..Len(shuffled)}
        valid == SelectSeq(dictionary, LAMBDA w : isBeeWord(w, letterSet, center))
    IN  [letters |-> shuffled,
         center |-> center,
         valid |-> valid,
         pangrams |-> SelectSeq(valid, LAMBDA w : isPangram(w, letterSet))]

\* What one pass through the loop body can build, over every choice of base,
\* order and center that Math.random can make.
HiveOutcomes(dictionary) ==
    LET candidates == PangramCandidates(dictionary)
    IN  UNION {UNION {
            {HiveOf(dictionary, shuffled, shuffled[c]) : c \in 1..Len(shuffled)} :
            shuffled \in Shuffles(Slice(uniqueLetters(candidates[b]), BEE_LETTERS))} :
            b \in 1..Len(candidates)}

\* HiveOutcomes of each dictionary, computed once
HiveTable ==
    [d \in 1..Len(BeeDictionaries) |-> HiveOutcomes(BeeDictionaries[d])]

BeeIdle ==
    /\ beeDict = 0
    /\ beePc = "idle"
    /\ beeAttempt = 0
    /\ beeBest = NoObject
    /\ beeResult = NoObject
    /\ beeIterations = 0
    /\ beeHives = 0
    /\ beeFirsts = {}
    /\ beeQualified = FALSE

\* a call with one of the dictionaries, at the head of the loop
BeeInit ==
    /\ beeDict \in 1..NumBeeDicts
    /\ beePc = "loop"
    /\ beeAttempt = 0
    /\ beeBest = NoObject
    /\ beeResult = NoObject
    /\ beeIterations = 0
    /\ beeHives = 0
    /\ beeFirsts = {}
    /\ beeQualified = FALSE

\* Variant of BeeBestAfter that keeps the first hive.
BeeBestKeepsFirst(current) ==
    IF beeBest = NoObject THEN <<current>> ELSE beeBest

\* Variant of BeeBestAfter in which a hive of the same size replaces best.
BeeBestTakesLatest(current) ==
    IF beeBest = NoObject \/ Len(current.valid) >= Len(beeBest[1].valid)
    THEN <<current>>
    ELSE beeBest

\* if (!best || current.valid.length > best.valid.length) best = current
BeeBestAfter(current) ==
    IF beeBest = NoObject \/ Len(current.valid) > Len(beeBest[1].valid)
    THEN <<current>>
    ELSE beeBest

\* Variant of BeeLoopCondition that lets one more pass through.
BeeLoopConditionLate(attempt) == attempt <= MAX_BEE_ATTEMPTS

\* attempt < 600
BeeLoopCondition(attempt) == attempt < MAX_BEE_ATTEMPTS

\* Variant of BeeTooDense that lets every hive through.
BeeNeverTooDense(current) == FALSE

\* if (valid.length > BEE_MAX_WORDS) continue
BeeTooDense(current) == Len(current.valid) > BEE_MAX_WORDS

\* The history of hives after a pass that built the hive current.
FirstsAfter(current) ==
    IF /\ Len(current.valid) <= 100
       /\ \A h \in beeFirsts : Len(h.valid) # Len(current.valid)
    THEN beeFirsts \cup {current}
    ELSE beeFirsts

QualifiedAfter(current) ==
    \/ beeQualified
    \/ /\ Len(current.valid) <= 100
       /\ Len(current.valid) >= 12
       /\ Len(current.pangrams) >= 1

\* one pass through the loop body
BeeAttempt ==
    /\ beePc = "loop"
    /\ BeeLoopCondition(beeAttempt)
    /\ beeIterations' = beeIterations + 1
    /\ IF Len(CandidateTable[beeDict]) = 0
       THEN /\ beeResult' = beeBest
            /\ beePc' = "done"
            /\ UNCHANGED <<beeAttempt, beeBest, beeHives, beeFirsts,
                           beeQualified>>
       ELSE /\ beeHives' = beeHives + 1
            /\ \E current \in HiveTable[beeDict] :
                /\ beeFirsts' = FirstsAfter(current)
                /\ beeQualified' = QualifiedAfter(current)
                /\ IF BeeTooDense(current)
                  THEN /\ beeAttempt' = beeAttempt + 1
                       /\ UNCHANGED <<beeBest, beeResult, beePc>>
                  ELSE /\ beeBest' = BeeBestAfter(current)
                       /\ IF Len(current.valid) >= BEE_MIN_VALID
                             /\ Len(current.pangrams) > 0
                          THEN /\ beeResult' = <<current>>
                               /\ beePc' = "done"
                               /\ UNCHANGED beeAttempt
                          ELSE /\ beeAttempt' = beeAttempt + 1
                               /\ UNCHANGED <<beeResult, beePc>>
    /\ UNCHANGED beeDict
    /\ UNCHANGED <<gameMode, lastOp, scoreVars, wordleVars, quordleVars,
                   streakleVars, patternVars, pickVars, hiveVars,
                   huntVars>>

\* return best, after the loop has run out
BeeExit ==
    /\ beePc = "loop"
    /\ ~BeeLoopCondition(beeAttempt)
    /\ beeResult' = beeBest
    /\ beePc' = "done"
    /\ UNCHANGED <<beeDict, beeAttempt, beeBest, beeIterations, beeHives,
                   beeFirsts, beeQualified>>
    /\ UNCHANGED <<gameMode, lastOp, scoreVars, wordleVars, quordleVars,
                   streakleVars, patternVars, pickVars, hiveVars,
                   huntVars>>

NextBee == BeeAttempt \/ BeeExit

(***************************************************************************)
(* The draw loops of startNewQuordleGame and startNewStreakleGame, one     *)
(* candidate at a time                                                     *)
(***************************************************************************)
\* The corpora a round is started with, the first NumPickCorpora of this
\* list: corpora of 1, 2, 3 and 4 different words, a corpus of 5 words of
\* which 4 are different, and a corpus of 5 different words.
PickCorpora ==
    << <<words[1]>>,
       <<words[1], words[2]>>,
       <<words[1], words[2], words[3]>>,
       words,
       <<words[1]>> \o words,
       words \o << <<"R","A","C","E","R">> >> >>

PickWords ==
    UNION {{PickCorpora[c][k] : k \in 1..Len(PickCorpora[c])} :
              c \in 1..Len(PickCorpora)}

pickWords == PickCorpora[pickCorpus]

PickIdle ==
    /\ pickCorpus = 0
    /\ pickPc = "idle"
    /\ pickStart = Null
    /\ pickPicked = <<>>
    /\ pickTick = 0

\* startNewQuordleGame or startNewStreakleGame is called with a corpus that
\* is not empty, and is past its test of the corpus
PickInit ==
    /\ pickCorpus \in 1..NumPickCorpora
    /\ pickPc \in {"quordle", "startWord"}
    /\ pickStart = Null
    /\ pickPicked = <<>>
    /\ pickTick = 0

\* const startWord = words[Math.floor(Math.random() * words.length)]
DrawStartWord(w) ==
    /\ pickPc = "startWord"
    /\ Includes(pickWords, w)
    /\ pickStart' = w
    /\ pickPc' = "streakle"
    /\ pickTick' = 1 - pickTick
    /\ UNCHANGED <<pickCorpus, pickPicked>>
    /\ UNCHANGED <<gameMode, lastOp, scoreVars, wordleVars, quordleVars,
                   streakleVars, patternVars, beeVars, hiveVars,
                   huntVars>>

\* one pass through the body of "while (picked.length < 4)"
DrawQuordle(candidate) ==
    /\ pickPc = "quordle"
    /\ Len(pickPicked) < QUORDLE_BOARDS
    /\ Includes(pickWords, candidate)
    /\ pickPicked' = IF ~Includes(pickPicked, candidate)
                     THEN Append(pickPicked, candidate)
                     ELSE pickPicked
    /\ pickTick' = 1 - pickTick
    /\ UNCHANGED <<pickCorpus, pickPc, pickStart>>
    /\ UNCHANGED <<gameMode, lastOp, scoreVars, wordleVars, quordleVars,
                   streakleVars, patternVars, beeVars, hiveVars,
                   huntVars>>

\* one pass through the body of "while (targets.length < 3)"
DrawStreakle(candidate) ==
    /\ pickPc = "streakle"
    /\ Len(pickPicked) < STREAKLE_TARGETS
    /\ Includes(pickWords, candidate)
    /\ pickPicked' = IF candidate # pickStart /\ ~Includes(pickPicked, candidate)
                     THEN Append(pickPicked, candidate)
                     ELSE pickPicked
    /\ pickTick' = 1 - pickTick
    /\ UNCHANGED <<pickCorpus, pickPc, pickStart>>
    /\ UNCHANGED <<gameMode, lastOp, scoreVars, wordleVars, quordleVars,
                   streakleVars, patternVars, beeVars, hiveVars,
                   huntVars>>

\* the loop is left; the rest of the function runs to its end
PickReturn ==
    /\ \/ pickPc = "quordle" /\ ~(Len(pickPicked) < QUORDLE_BOARDS)
       \/ pickPc = "streakle" /\ ~(Len(pickPicked) < STREAKLE_TARGETS)
    /\ pickPc' = "done"
    /\ UNCHANGED <<pickCorpus, pickStart, pickPicked, pickTick>>
    /\ UNCHANGED <<gameMode, lastOp, scoreVars, wordleVars, quordleVars,
                   streakleVars, patternVars, beeVars, hiveVars,
                   huntVars>>

NextPick ==
    \/ PickReturn
    \/ \E w \in PickWords : DrawStartWord(w)
    \/ \E w \in PickWords : DrawQuordle(w)
    \/ \E w \in PickWords : DrawStreakle(w)

(***************************************************************************)
(* The Spelling Bee session                                                *)
(***************************************************************************)
\* What buildBeePuzzle can return for a dictionary: null when it has no base
\* word; otherwise any hive within the cap (returned at once, or tracked as
\* best when it is the first or the largest of the hives built), and null
\* when a hive above the cap can come up at each of the 600 attempts.
BuildResults(d) ==
    IF Len(CandidateTable[d]) = 0
    THEN {NoObject}
    ELSE {<<h>> : h \in {g \in HiveTable[d] : ~BeeTooDense(g)}}
         \cup (IF \E g \in HiveTable[d] : BeeTooDense(g)
               THEN {NoObject}
               ELSE {})

\* BuildResults of each dictionary, computed once
BuildTable == [d \in 1..Len(BeeDictionaries) |-> BuildResults(d)]

\* raw, after trim().toUpperCase(): the pangram of the hives, two words of
\* the dictionaries, a word of the dictionary with a letter no hive has, a
\* word of hive letters that is in no dictionary, and a word of 3 letters.
BeeTyped ==
    { HiveLetters,
      <<"A","B","C","D">>,
      <<"G","F","E","D">>,
      <<"A","B","C","H">>,
      <<"A","B","C","E">>,
      <<"A","B","C">> }

\* the state of the component before the mode is opened
HiveIdle ==
    /\ beeDictLoading = FALSE
    /\ beeDictError = ""
    /\ beeLetters = Null
    /\ beeCenterLetter = Null
    /\ beeValidWords = <<>>
    /\ beePangrams = <<>>
    /\ beeFoundWords = <<>>
    /\ beeMessage = ""
    /\ beeRaw = <<>>

\* The effect that loads the dictionary starts loadBeeDict.
LoadBeeDict ==
    /\ gameMode = "bee" /\ beeDict = 0 /\ ~beeDictLoading
    /\ beeDictLoading' = TRUE
    /\ beeDictError' = ""
    /\ lastOp' = "load"
    /\ UNCHANGED <<beeLetters, beeCenterLetter, beeValidWords, beePangrams,
                   beeFoundWords, beeMessage, beeRaw>>
    /\ UNCHANGED <<gameMode, scoreVars, wordleVars, quordleVars, streakleVars,
                   patternVars, beeVars, pickVars, huntVars>>

\* loadBeeDict ends: with the words of the text, or with an error.
LoadBeeDictEnd ==
    /\ beeDictLoading
    /\ \/ /\ beeDict' \in 1..NumBeeDicts
          /\ UNCHANGED beeDictError
       \/ /\ beeDictError' = "failed"
          /\ UNCHANGED beeDict
    /\ beeDictLoading' = FALSE
    /\ lastOp' = "load"
    /\ UNCHANGED <<beeLetters, beeCenterLetter, beeValidWords, beePangrams,
                   beeFoundWords, beeMessage, beeRaw>>
    /\ UNCHANGED <<beePc, beeAttempt, beeBest, beeResult, beeIterations,
                   beeHives, beeFirsts, beeQualified>>
    /\ UNCHANGED <<gameMode, scoreVars, wordleVars, quordleVars, streakleVars,
                   patternVars, pickVars, huntVars>>

\* puzzle.letters.filter((l) => l !== puzzle.center)
OuterLetters(letters, center) == SelectSeq(letters, LAMBDA l : l # center)

startNewBeeGame ==
    /\ gameMode = "bee"
    /\ IF beeDictLoading
       THEN /\ beeMessage' = "loading"
            /\ lastOp' = "noGame"
            /\ UNCHANGED <<beeLetters, beeCenterLetter, beeValidWords,
                           beePangrams, beeFoundWords>>
       ELSE IF beeDictError # ""
       THEN /\ beeMessage' = "dictionaryError"
            /\ lastOp' = "noGame"
            /\ UNCHANGED <<beeLetters, beeCenterLetter, beeValidWords,
                           beePangrams, beeFoundWords>>
       ELSE IF beeDict = 0
       THEN /\ beeMessage' = "notReady"
            /\ lastOp' = "noGame"
            /\ UNCHANGED <<beeLetters, beeCenterLetter, beeValidWords,
                           beePangrams, beeFoundWords>>
       ELSE \E puzzle \in BuildTable[beeDict] :
                IF puzzle = NoObject
                THEN /\ beeMessage' = "couldNotBuild"
                     /\ lastOp' = "noGame"
                     /\ UNCHANGED <<beeLetters, beeCenterLetter, beeValidWords,
                                    beePangrams, beeFoundWords>>
                ELSE \E outerShuffled \in
                         Shuffles(OuterLetters(puzzle[1].letters,
                                               puzzle[1].center)) :
                         /\ beeLetters' = <<puzzle[1].center>> \o outerShuffled
                         /\ beeCenterLetter' = puzzle[1].center
                         /\ beeValidWords' = puzzle[1].valid
                         /\ beePangrams' = puzzle[1].pangrams
                         /\ beeFoundWords' = <<>>
                         /\ beeMessage' = "found0"
                         /\ lastOp' = "new"
    /\ UNCHANGED <<beeDictLoading, beeDictError, beeRaw>>
    /\ UNCHANGED <<gameMode, scoreVars, wordleVars, quordleVars, streakleVars,
                   patternVars, beeVars, pickVars, huntVars>>

shuffleBeeLetters ==
    /\ gameMode = "bee"
    /\ IF beeLetters = Null \/ beeCenterLetter = Null
       THEN /\ lastOp' = "ignored"
            /\ UNCHANGED beeLetters
       ELSE \E reshuffled \in
                Shuffles(OuterLetters(beeLetters, beeCenterLetter)) :
                /\ beeLetters' = <<beeCenterLetter>> \o reshuffled
                /\ lastOp' = "shuffled"
    /\ UNCHANGED <<beeDictLoading, beeDictError, beeCenterLetter,
                   beeValidWords, beePangrams, beeFoundWords, beeMessage,
                   beeRaw>>
    /\ UNCHANGED <<gameMode, scoreVars, wordleVars, quordleVars, streakleVars,
                   patternVars, beeVars, pickVars, huntVars>>

\* for (const ch of raw) if (!beeLetterSet.has(ch)) ...
BeeOutsideLetter(raw) ==
    \E i \in 1..Len(raw) : ~Includes(beeLetters, raw[i])

\* Variant of BeeRejection that looks the word up in the dictionary only.
BeeRejectionByDictionary(raw) ==
    IF ~Includes(BeeDictionaries[beeDict], raw) THEN "notInDictionary"
    ELSE IF Includes(beeFoundWords, raw) THEN "alreadyFound"
    ELSE ""

\* Variant of BeeRejection without the test for a word found before.
BeeRejectionAllowsRepeats(raw) ==
    IF Len(raw) < BEE_MIN_WORD_LEN THEN "tooShort"
    ELSE IF ~HasLetter(raw, beeCenterLetter) THEN "noCenter"
    ELSE IF BeeOutsideLetter(raw) THEN "outsideLetter"
    ELSE IF ~Includes(beeValidWords, raw) THEN "notInDictionary"
    ELSE ""

\* The tests of handleBeeSubmit, in their order: the message of the first
\* that makes it return, "" when the word passes them all.
BeeRejection(raw) ==
    IF Len(raw) < BEE_MIN_WORD_LEN THEN "tooShort"
    ELSE IF ~HasLetter(raw, beeCenterLetter) THEN "noCenter"
    ELSE IF BeeOutsideLetter(raw) THEN "outsideLetter"
    ELSE IF ~Includes(beeValidWords, raw) THEN "notInDictionary"
    ELSE IF Includes(beeFoundWords, raw) THEN "alreadyFound"
    ELSE ""

handleBeeSubmit(raw) ==
    /\ gameMode = "bee"
    /\ beeRaw' = raw
    /\ IF beeLetters = Null \/ beeCenterLetter = Null
       THEN /\ lastOp' = "ignored"
            /\ UNCHANGED <<beeFoundWords, beeMessage>>
       ELSE IF beeDictLoading
       THEN /\ lastOp' = "ignored"
            /\ UNCHANGED <<beeFoundWords, beeMessage>>
       ELSE IF BeeRejection(raw) # ""
       THEN /\ beeMessage' = BeeRejection(raw)
            /\ lastOp' = "rejected"
            /\ UNCHANGED beeFoundWords
       ELSE /\ beeFoundWords' = Append(beeFoundWords, raw)
            /\ beeMessage' = IF Includes(beePangrams, raw) THEN "pangram"
                             ELSE "nice"
            /\ lastOp' = "accepted"
    /\ UNCHANGED <<beeDictLoading, beeDictError, beeLetters, beeCenterLetter,
                   beeValidWords, beePangrams>>
    /\ UNCHANGED <<gameMode, scoreVars, wordleVars, quordleVars, streakleVars,
                   patternVars, beeVars, pickVars, huntVars>>

NextBeeSession ==
    \/ LoadBeeDict
    \/ LoadBeeDictEnd
    \/ startNewBeeGame
    \/ shuffleBeeLetters
    \/ \E raw \in BeeTyped : handleBeeSubmit(raw)

(***************************************************************************)
(* The Pattern Hunt session                                                *)
(***************************************************************************)
\* What generateTwoLetterPattern can return for a corpus that is not empty:
\* the pattern and matches of an attempt in bounds, returned at once; those
\* of an attempt out of bounds with 2 matches or more, tracked as fallback
\* when each of the 5000 attempts comes to it; and the last resort, when
\* each attempt can skip or come to fewer than 2 matches.
GenerateResults(ws) ==
    {[patternArr |-> o.patternArr, matches |-> o.matches] :
        o \in {a \in AttemptOutcomes(ws) :
                  /\ ~a.skip
                  /\ InBounds(Len(a.matches)) \/ Len(a.matches) >= 2}}
    \cup (IF \E a \in AttemptOutcomes(ws) : a.skip \/ Len(a.matches) < 2
          THEN {[patternArr |-> LastResortPattern(ws),
                 matches |-> MatchesOf(ws, LastResortPattern(ws))]}
          ELSE {})

\* generateTwoLetterPattern(words), computed once
HuntResults == GenerateResults(words)

\* raw, after trim().toUpperCase(): the words of the corpus, a word of 5
\* letters that is not in the corpus and matches some of its patterns, one
\* that matches none, and a word of 3 letters.
HuntTyped == TypedWords \cup {<<"G","R","A","P","E">>}

\* the state of the component before a pattern is generated
HuntIdle ==
    /\ huntPattern = NoObject
    /\ solutions = <<>>
    /\ foundWords = <<>>
    /\ patternMessage = ""

startNewPatternGame ==
    /\ gameMode = "pattern"
    /\ IF Len(words) = 0
       THEN lastOp' = "noGame" /\ UNCHANGED huntVars
       ELSE \E r \in HuntResults :
                /\ huntPattern' = <<r.patternArr>>
                /\ solutions' = r.matches
                /\ foundWords' = <<>>
                /\ patternMessage' = ""
                /\ lastOp' = "new"
    /\ UNCHANGED <<gameMode, scoreVars, wordleVars, quordleVars, streakleVars,
                   patternVars, beeVars, pickVars, hiveVars>>

\* The capital letters in the order of their code units.
CapitalLetters ==
    <<"A","B","C","D","E","F","G","H","I","J","K","L","M",
      "N","O","P","Q","R","S","T","U","V","W","X","Y","Z">>

CodeUnit(ch) == CHOOSE k \in 1..Len(CapitalLetters) : CapitalLetters[k] = ch

\* the order Array.prototype.sort puts two strings in: a comes before b
WordLess(a, b) ==
    \/ \E i \in 1..Min(Len(a), Len(b)) :
          /\ \A j \in 1..(i - 1) : a[j] = b[j]
          /\ CodeUnit(a[i]) < CodeUnit(b[i])
    \/ /\ Len(a) < Len(b)
       /\ \A j \in 1..Len(a) : a[j] = b[j]

\* what the handler does once the guess has passed every check
PatternAccept(raw) ==
    LET updated == SortSeq(Append(foundWords, raw), WordLess)
        remaining == Len(solutions) - Len(updated)
    IN  /\ foundWords' = updated
        /\ patternMessage' = (IF remaining = 0 THEN "perfect"
                              ELSE IF remaining = 1 THEN "oneLeft"
                              ELSE "hidden")
        /\ lastOp' = "accepted"
        /\ UNCHANGED <<huntPattern, solutions>>

PatternReject(reason) ==
    /\ patternMessage' = reason
    /\ lastOp' = "rejected"
    /\ UNCHANGED <<huntPattern, solutions, foundWords>>

\* Variant of PatternRejection without the test of the found list.
PatternRejectionAllowsRepeats(raw) ==
    IF Len(raw) # Len(huntPattern[1]) THEN "length"
    ELSE IF ~matchesPattern(raw, huntPattern[1]) THEN "noMatch"
    ELSE IF raw \notin wordSet THEN "notInList"
    ELSE ""

\* the tests of handlePatternSubmit, in their order: the message of the
\* first that fails, "" when raw passes them all
PatternRejection(raw) ==
    IF Len(raw) # Len(huntPattern[1]) THEN "length"
    ELSE IF ~matchesPattern(raw, huntPattern[1]) THEN "noMatch"
    ELSE IF raw \notin wordSet THEN "notInList"
    ELSE IF Includes(foundWords, raw) THEN "already"
    ELSE ""

handlePatternSubmit(raw) ==
    /\ gameMode = "pattern"
    /\ IF huntPattern = NoObject
       THEN lastOp' = "noGame" /\ UNCHANGED huntVars
       ELSE IF PatternRejection(raw) # ""
       THEN PatternReject(PatternRejection(raw))
       ELSE PatternAccept(raw)
    /\ UNCHANGED <<gameMode, scoreVars, wordleVars, quordleVars, streakleVars,
                   patternVars, beeVars, pickVars, hiveVars>>

NextHunt ==
    \/ startNewPatternGame
    \/ \E raw \in HuntTyped : handlePatternSubmit(raw)

(***************************************************************************)
(* Specifications                                                          *)
(***************************************************************************)
\* calls of scoreWordleGuess
InitScore ==
    /\ gameMode = "home"
    /\ lastOp = "none"
    /\ ScoreInit
    /\ WordleIdle /\ QuordleIdle /\ StreakleIdle
    /\ PatternIdle /\ BeeIdle /\ PickIdle /\ HiveIdle /\ HuntIdle

NextScore == CallScore

SpecScore == InitScore /\ [][NextScore]_vars

\* The sessions.  The handlers of a mode read and write the state of that
\* mode only, so each mode is explored on its own, from the state in which
\* the corpus is loaded and the mode has been opened.
InitMode(mode) ==
    /\ gameMode = mode
    /\ lastOp = "none"
    /\ ScoreIdle
    /\ WordleIdle /\ QuordleIdle /\ StreakleIdle
    /\ PatternIdle /\ BeeIdle /\ PickIdle /\ HiveIdle /\ HuntIdle

SpecWordle == InitMode("wordle") /\ [][NextWordle]_vars

SpecQuordle == InitMode("quordle") /\ [][NextQuordle]_vars

SpecStreakle == InitMode("streakle") /\ [][NextStreakle]_vars

Init == \E mode \in {"wordle", "quordle", "streakle"} : InitMode(mode)

Next == NextWordle \/ NextQuordle \/ NextStreakle

Spec == Init /\ [][Next]_vars

\* calls of the two randomized searches
InitGen ==
    /\ gameMode = "home"
    /\ lastOp = "none"
    /\ ScoreIdle
    /\ WordleIdle /\ QuordleIdle /\ StreakleIdle
    /\ PickIdle /\ HiveIdle /\ HuntIdle
    /\ \/ PatternInit /\ BeeIdle
       \/ PatternIdle /\ BeeInit

NextGen == NextPattern \/ NextBee

SpecGen == InitGen /\ [][NextGen]_vars

\* Math.random returns and the loop bodies run to their end, so a search
\* that can take a step takes one.
SpecGenFair == SpecGen /\ WF_vars(NextGen)

\* starts of a Quordle or Streakle round
InitPick ==
    /\ gameMode = "home"
    /\ lastOp = "none"
    /\ ScoreIdle
    /\ WordleIdle /\ QuordleIdle /\ StreakleIdle
    /\ PatternIdle /\ BeeIdle /\ HiveIdle /\ HuntIdle
    /\ PickInit

SpecPick == InitPick /\ [][NextPick]_vars

\* the Spelling Bee session, from the state in which the mode has been opened
InitBee == InitMode("bee")

SpecBee == InitBee /\ [][NextBeeSession]_vars

\* the Pattern Hunt session
InitHunt == InitMode("pattern")

SpecHunt == InitHunt /\ [][NextHunt]_vars

\* Fair random choice: a word of the corpus that can be drawn at every pass
\* of a loop is drawn at some pass; and the code before and after a loop
\* runs.
SpecPickFair ==
    /\ SpecPick
    /\ WF_vars(PickReturn)
    /\ WF_vars(\E w \in PickWords : DrawStartWord(w))
    /\ \A w \in PickWords :
          WF_vars(DrawQuordle(w) \/ DrawStreakle(w))

(***************************************************************************)
(* Properties of scoreWordleGuess (checked under SpecScore)                *)
(***************************************************************************)
Positions(w) == 1..Len(w)

\* occurrences of letter L in word w
Occurrences(w, L) == Cardinality({i \in Positions(w) : w[i] = L})

\* positions of the guess that hold L and are marked correct or present
Coloured(guess, row, L) ==
    Cardinality({i \in Positions(guess) :
                    guess[i] = L /\ row[i] \in {"correct", "present"}})

\* C1: multiset conservation.  For every letter L, the positions of the
\* returned row that hold L in the guess and are marked correct or present
\* are at most as many as the occurrences of L in the answer.
C1_MultisetConservation ==
    sPc = "done" =>
        \A L \in Letters : Coloured(sGuess, sResult, L) <= Occurrences(sAnswer, L)

\* A call has returned a row in which one occurrence of a letter is present
\* and another occurrence of the same letter, having run out, is absent.
C1_Witness ==
    /\ sPc = "done"
    /\ \E i, j \in Positions(sGuess) :
          /\ sGuess[i] = sGuess[j]
          /\ sResult[i] = "present"
          /\ sResult[j] = "absent"

\* occurrences of L in the answer that are not exactly matched
Leftover(guess, answer, L) ==
    Cardinality({j \in Positions(answer) : answer[j] = L /\ guess[j] # answer[j]})

\* earlier positions of the guess that hold the letter of position i and are
\* marked present
EarlierPresent(guess, row, i) ==
    Cardinality({j \in 1..(i - 1) : guess[j] = guess[i] /\ row[j] = "present"})

\* C2: the returned row is the two-pass reference row.  Position i is correct
\* iff guess[i] = answer[i]; a position that is not correct is present iff
\* the non-exactly-matched occurrences of its letter in the answer exceed the
\* earlier positions with the same letter marked present; else it is absent.
C2_TwoPassReference ==
    sPc = "done" =>
        /\ Len(sResult) = Len(sAnswer)
        /\ \A i \in Positions(sGuess) :
              sResult[i] =
                 IF sGuess[i] = sAnswer[i] THEN "correct"
                 ELSE IF Leftover(sGuess, sAnswer, sGuess[i]) >
                            EarlierPresent(sGuess, sResult, i)
                      THEN "present"
                      ELSE "absent"

\* A call has returned a row that holds all three marks.
C2_Witness ==
    /\ sPc = "done"
    /\ \E i, j, k \in Positions(sGuess) :
          /\ sResult[i] = "correct"
          /\ sResult[j] = "present"
          /\ sResult[k] = "absent"

\* C3: every position of the returned row is correct iff guess = answer.
C3_AllCorrectIffEqual ==
    sPc = "done" =>
        ((\A i \in Positions(sResult) : sResult[i] = "correct") <=> sGuess = sAnswer)

\* The call score(APPLE, APPLE) has returned five times correct.
C3_Witness ==
    /\ sPc = "done"
    /\ sGuess = <<"A","P","P","L","E">>
    /\ sAnswer = sGuess
    /\ sResult = [i \in 1..5 |-> "correct"]

\* the guess has the letters of the answer, each as many times
IsRearrangement(guess, answer) ==
    /\ Len(guess) = Len(answer)
    /\ \A L \in Letters : Occurrences(guess, L) = Occurrences(answer, L)

\* C4: when the guess is a rearrangement of the answer and no position
\* matches exactly, every position of the returned row is present.
C4_RearrangementAllPresent ==
    (/\ sPc = "done"
     /\ IsRearrangement(sGuess, sAnswer)
     /\ \A i \in Positions(sGuess) : sGuess[i] # sAnswer[i])
    => \A i \in Positions(sResult) : sResult[i] = "present"

\* The call score(ALERT, LATER) has returned five times present.
C4_Witness ==
    /\ sPc = "done"
    /\ sGuess = <<"A","L","E","R","T">>
    /\ sAnswer = <<"L","A","T","E","R">>
    /\ sResult = [i \in 1..5 |-> "present"]

(***************************************************************************)
(* Properties of the sessions                                              *)
(***************************************************************************)
\* the state of a session that a submit may change, without its message
WordleCore == <<wordleAnswer, wordleGuesses, wordleResults, wordleDone>>
QuordleCore ==
    <<quordleAnswers, quordleGuesses, quordleResults, quordleWins, quordleDone>>
StreakleCore ==
    <<streakleTargets, streakleStartWord, streakleCurrentIndex, streakleGuesses,
      streakleResults, streakleSolved, streakleDone>>

\* the session of the open mode has reached Won or Lost
Terminal ==
    \/ gameMode = "wordle" /\ wordleDone
    \/ gameMode = "quordle" /\ quordleDone
    \/ gameMode = "streakle" /\ streakleDone

\* C5: terminal idempotence.  From a state in which the session is Won or
\* Lost, every step that is not the start of a new round is a submit that is
\* dropped: guess log, feedback history, win/solved flags, active index and
\* terminal flag are unchanged.
C5_TerminalIdempotence ==
    [][(Terminal /\ lastOp' # "new") =>
          /\ lastOp' = "ignored"
          /\ UNCHANGED <<WordleCore, QuordleCore, StreakleCore>>]_vars

\* A Streakle session that was lost with a target unsolved has dropped a
\* submit.
C5_Witness ==
    /\ gameMode = "streakle"
    /\ streakleDone
    /\ \E t \in Targets : ~streakleSolved[t]
    /\ Len(streakleGuesses) = STREAKLE_MAX_GUESSES
    /\ lastOp = "ignored"

\* C6: a rejected submit leaves guess log, feedback history, win/solved
\* flags, active index and terminal flag as they were, and the session is
\* still in progress afterwards.
C6_RejectionLeavesState ==
    [][lastOp' = "rejected" =>
          /\ UNCHANGED <<WordleCore, QuordleCore, StreakleCore>>
          /\ ~Terminal']_vars

\* A Streakle submit has been rejected for a locked position.
C6_Witness ==
    /\ gameMode = "streakle"
    /\ lastOp = "rejected"
    /\ streakleMessage = "locked"
    /\ Len(streakleGuesses) > 1

Last(seq) == seq[Len(seq)]

\* C7: an accepted Wordle guess appends one guess and its feedback row; the
\* session is then Won iff the guess is the answer, else Lost iff the guess
\* count has reached 6, else in progress; the guess count never exceeds 6.
C7_WordleTransitions ==
    /\ [](Len(wordleGuesses) <= WORDLE_MAX_GUESSES)
    /\ [][(gameMode = "wordle" /\ lastOp' = "accepted") =>
            \E w \in wordSet :
               /\ wordleGuesses' = Append(wordleGuesses, w)
               /\ wordleResults' =
                     Append(wordleResults, scoreWordleGuess(w, wordleAnswer))
               /\ wordleAnswer' = wordleAnswer
               /\ (wordleMessage' = "solved") <=> (w = wordleAnswer)
               /\ (wordleMessage' = "outOfGuesses") <=>
                     (w # wordleAnswer /\ Len(wordleGuesses') = WORDLE_MAX_GUESSES)
               /\ wordleDone' <=> (wordleMessage' \in {"solved", "outOfGuesses"})
               /\ ~wordleDone' => wordleMessage' = "guessesLeft"]_vars

\* A Wordle session has been lost on its sixth guess.
C7_Witness ==
    /\ gameMode = "wordle"
    /\ lastOp = "accepted"
    /\ wordleDone
    /\ wordleMessage = "outOfGuesses"
    /\ Len(wordleGuesses) = WORDLE_MAX_GUESSES
    /\ ~Includes(wordleGuesses, wordleAnswer)

\* C8: Quordle win flags are sticky.  Within a round a flag that is true
\* stays true after every submit, and the flag of a board is true iff some
\* guess of the shared log is the answer of that board.
C8_QuordleStickyWins ==
    /\ [][lastOp' # "new" =>
            \A b \in Boards : quordleWins[b] => quordleWins'[b]]_vars
    /\ [](quordleAnswers # Null =>
            \A b \in Boards :
               quordleWins[b] <=> Includes(quordleGuesses, quordleAnswers[b]))

\* The flag of a board is set and a later guess, which is not the answer of
\* that board, has been accepted.
C8_Witness ==
    /\ quordleAnswers # Null
    /\ lastOp = "accepted"
    /\ \E b \in Boards :
          /\ quordleWins[b]
          /\ Len(quordleGuesses) >= 2
          /\ Last(quordleGuesses) # quordleAnswers[b]

\* C9: Quordle independence.  An accepted guess that is the answer of board
\* a sets the flag of a and changes no other flag; an accepted guess that is
\* no board's answer changes none; a flag is false as long as the answer of
\* its board is not in the guess log, in the Lost state too.
C9_QuordleIndependence ==
    /\ [][(gameMode = "quordle" /\ lastOp' = "accepted") =>
            \A b \in Boards :
               quordleWins'[b] =
                  (quordleWins[b] \/ Last(quordleGuesses') = quordleAnswers[b])]_vars
    /\ [](quordleAnswers # Null =>
            /\ \A a, b \in Boards :
                  a # b => quordleAnswers[a] # quordleAnswers[b]
            /\ \A b \in Boards :
                  ~Includes(quordleGuesses, quordleAnswers[b]) => ~quordleWins[b])

\* A Quordle session was lost after 9 guesses with exactly one board solved.
C9_Witness ==
    /\ quordleAnswers # Null
    /\ quordleDone
    /\ Len(quordleGuesses) = QUORDLE_MAX_GUESSES
    /\ Cardinality({b \in Boards : quordleWins[b]}) = 1

QuordleAllWins == \A b \in Boards : quordleWins[b]

\* C10: Quordle terminal logic.  The session is Won exactly when all 4 flags
\* are set, Lost exactly when the guess count is 9 with a flag unset, and the
\* guess count never exceeds 9.
C10_QuordleTerminal ==
    quordleAnswers # Null =>
        /\ Len(quordleGuesses) <= QUORDLE_MAX_GUESSES
        /\ quordleDone <=>
              (QuordleAllWins \/ Len(quordleGuesses) = QUORDLE_MAX_GUESSES)
        /\ (quordleMessage = "solved") <=> QuordleAllWins
        /\ (quordleMessage = "outOfGuesses") <=>
              (Len(quordleGuesses) = QUORDLE_MAX_GUESSES /\ ~QuordleAllWins)

\* A Quordle session was won before the guesses ran out.
C10_Witness ==
    /\ quordleAnswers # Null
    /\ quordleDone
    /\ QuordleAllWins
    /\ quordleMessage = "solved"
    /\ Len(quordleGuesses) < QUORDLE_MAX_GUESSES

StreakleActive == gameMode = "streakle" /\ streakleTargets # Null

ActiveTarget == streakleTargets[streakleCurrentIndex + 1]

\* C11: Streakle lock invariant.  When some guess of the log has its letter
\* scored correct at position i against the active target, a guess that is
\* accepted while that target is active has the same letter at position i.
C11_StreakleLockInvariant ==
    [][(StreakleActive /\ lastOp' = "accepted") =>
          \A g \in 1..Len(streakleGuesses) : \A i \in 1..WORD_LEN :
              Score(streakleGuesses[g], ActiveTarget)[i] = "correct"
                  => Last(streakleGuesses')[i] = streakleGuesses[g][i]]_vars

\* A guess was accepted that keeps a letter an earlier, different guess had
\* locked for the target that is still active.
C11_Witness ==
    /\ StreakleActive
    /\ lastOp = "accepted"
    /\ ~streakleSolved[streakleCurrentIndex + 1]
    /\ \E g \in 1..(Len(streakleGuesses) - 1) : \E i \in 1..WORD_LEN :
          /\ Score(streakleGuesses[g], ActiveTarget)[i] = "correct"
          /\ Last(streakleGuesses)[i] = streakleGuesses[g][i]
          /\ Last(streakleGuesses) # streakleGuesses[g]

\* Some guess of the log has the letter of the active target at position i.
MatchesActiveAt(i) ==
    \E g \in 1..Len(streakleGuesses) : streakleGuesses[g][i] = ActiveTarget[i]

\* C12: Streakle locks are target-scoped.  Whatever target was active before,
\* position i is enforced iff some guess of the full log equals the active
\* target at position i, the enforced letter is the active target's, and a
\* guess is refused by the lock check iff it differs from the active target
\* at an enforced position, so a position that was locked under an earlier
\* target alone does not refuse a guess.
C12_LocksTargetScoped ==
    StreakleActive =>
        LET pattern == streakleLockedPattern
        IN  /\ Len(pattern) = WORD_LEN
            /\ \A i \in 1..WORD_LEN :
                  /\ (pattern[i] # "_") <=> MatchesActiveAt(i)
                  /\ pattern[i] # "_" => pattern[i] = ActiveTarget[i]
            /\ \A raw \in wordSet :
                  LockViolated(raw) <=>
                      \E i \in 1..WORD_LEN :
                          MatchesActiveAt(i) /\ raw[i] # ActiveTarget[i]

\* The first target was solved, the second became active, and the guess then
\* accepted differs from the first target at a position where no earlier
\* guess matches the second target.
C12_Witness ==
    /\ StreakleActive
    /\ lastOp = "accepted"
    /\ LET n == Len(streakleGuesses)
       IN  /\ \E g \in 1..(n - 1) : streakleGuesses[g] = streakleTargets[1]
           /\ \A g \in 1..(n - 1) : streakleGuesses[g] # streakleTargets[2]
           /\ \E i \in 1..WORD_LEN :
                 /\ streakleGuesses[n][i] # streakleTargets[1][i]
                 /\ \A g \in 1..(n - 1) :
                       streakleGuesses[g][i] # streakleTargets[2][i]

\* C13: Streakle solved flags.  In a round, target k is flagged solved iff
\* some guess of the full log, the start word included, equals target k; and
\* a set flag stays set until a new round is started.
C13_SolvedFlags ==
    [][/\ StreakleActive =>
            \A k \in Targets :
                streakleSolved[k] <=> Includes(streakleGuesses, streakleTargets[k])
       /\ (StreakleActive /\ lastOp' # "new") =>
            \A k \in Targets : streakleSolved[k] => streakleSolved'[k]]_vars

\* A target after the active one was solved while the active one is still
\* unsolved, and a later guess was accepted without clearing the flag.
C13_Witness ==
    /\ StreakleActive
    /\ lastOp = "accepted"
    /\ ~streakleSolved[streakleCurrentIndex + 1]
    /\ \E k \in Targets :
          /\ k > streakleCurrentIndex + 1
          /\ streakleSolved[k]
          /\ Last(streakleGuesses) # streakleTargets[k]

\* The lowest 0-based index of an unsolved target of the flags, as a set.
LowestUnsolved(solved) ==
    {k \in 0..(STREAKLE_TARGETS - 1) :
        /\ ~solved[k + 1]
        /\ \A j \in 0..(k - 1) : solved[j + 1]}

\* C14: Streakle active-index advance.  After an accepted guess, if the
\* active target is solved and some target is unsolved, the active index is
\* the lowest index of an unsolved target; if the active target is still
\* unsolved, or all targets are solved, the active index is unchanged.
C14_ActiveIndexAdvance ==
    [][(StreakleActive /\ lastOp' = "accepted") =>
          IF /\ streakleSolved'[streakleCurrentIndex + 1]
             /\ \E k \in Targets : ~streakleSolved'[k]
          THEN streakleCurrentIndex' \in LowestUnsolved(streakleSolved')
          ELSE streakleCurrentIndex' = streakleCurrentIndex]_vars

\* The first target was just solved while the second had been solved out of
\* order before, so the active index went from the first target to the third.
C14_Witness ==
    /\ StreakleActive
    /\ lastOp = "accepted"
    /\ Last(streakleGuesses) = streakleTargets[1]
    /\ \E g \in 1..(Len(streakleGuesses) - 1) :
          streakleGuesses[g] = streakleTargets[2]
    /\ ~streakleSolved[3]
    /\ streakleCurrentIndex = 2

\* C15: Streakle initialization.  A new round has a guess log holding exactly
\* the start word, 3 pairwise distinct targets all different from the start
\* word, one feedback row per target for the start word, and an active index
\* equal to the first unsolved target.
C15_StreakleInitialization ==
    (StreakleActive /\ lastOp = "new") =>
        /\ streakleStartWord \in wordSet
        /\ streakleGuesses = <<streakleStartWord>>
        /\ Len(streakleTargets) = STREAKLE_TARGETS
        /\ \A k \in Targets :
              /\ streakleTargets[k] \in wordSet
              /\ streakleTargets[k] # streakleStartWord
              /\ \A j \in Targets : j # k => streakleTargets[j] # streakleTargets[k]
        /\ Len(streakleResults) = STREAKLE_TARGETS
        /\ \A k \in Targets :
              streakleResults[k] =
                  <<scoreWordleGuess(streakleStartWord, streakleTargets[k])>>
        /\ \A k \in Targets : ~streakleSolved[k]
        /\ streakleCurrentIndex \in LowestUnsolved(streakleSolved)
        /\ ~streakleDone

\* A round was started whose start word has a letter in place in one target
\* and none in place in another.
C15_Witness ==
    /\ StreakleActive
    /\ lastOp = "new"
    /\ \E k \in Targets : \E i \in 1..WORD_LEN :
          streakleResults[k][1][i] = "correct"
    /\ \E k \in Targets : \A i \in 1..WORD_LEN :
          streakleResults[k][1][i] # "correct"

StreakleAllSolved == \A k \in Targets : streakleSolved[k]

\* C16: Streakle terminal logic.  The session is Won exactly when all 3
\* targets are solved, Lost exactly when the guess count, start word included,
\* is 8 with a target unsolved, and the guess count never exceeds 8, so that
\* at most 7 guesses of the player are accepted.
C16_StreakleTerminal ==
    StreakleActive =>
        /\ Len(streakleGuesses) >= 1
        /\ Len(streakleGuesses) <= STREAKLE_MAX_GUESSES
        /\ streakleGuesses[1] = streakleStartWord
        /\ streakleDone <=>
              (StreakleAllSolved \/ Len(streakleGuesses) = STREAKLE_MAX_GUESSES)
        /\ (streakleMessage = "solved") <=> StreakleAllSolved
        /\ (streakleMessage = "outOfGuesses") <=>
              (Len(streakleGuesses) = STREAKLE_MAX_GUESSES /\ ~StreakleAllSolved)

\* A Streakle session was lost on the seventh accepted guess with exactly two
\* targets solved.
C16_Witness ==
    /\ StreakleActive
    /\ lastOp = "accepted"
    /\ streakleDone
    /\ streakleMessage = "outOfGuesses"
    /\ Len(streakleGuesses) = STREAKLE_MAX_GUESSES
    /\ Cardinality({k \in Targets : streakleSolved[k]}) = 2

\* generateTwoLetterPattern has returned, for a corpus that is not empty.
PgReturned == pgCorpus # 0 /\ pgPc = "done" /\ Len(pgWords) > 0

ConcreteSlots(patternArr) ==
    {i \in 1..Len(patternArr) : patternArr[i] # "_"}

TwoFarSlots(patternArr) ==
    /\ Cardinality(ConcreteSlots(patternArr)) = 2
    /\ \A i, j \in ConcreteSlots(patternArr) : i # j => Abs(i - j) > 1

PgCalled == pgCorpus # 0 /\ Len(pgWords) > 0

\* The match count of a pattern in the corpus of the call.
CountOfPattern(patternArr) == Len(MatchesOf(pgWords, patternArr))

CountInBounds(patternArr) ==
    CountOfPattern(patternArr) >= 3 /\ CountOfPattern(patternArr) <= 15

Closeness(patternArr) == Abs(CountOfPattern(patternArr) - 9)

\* The place in the history of the pattern closest to 9 matches, the one
\* that came up first among equally close ones.
BestInHist ==
    CHOOSE k \in 1..Len(pgHist) :
        /\ \A j \in 1..Len(pgHist) : Closeness(pgHist[k]) <= Closeness(pgHist[j])
        /\ \A j \in 1..(k - 1) : Closeness(pgHist[j]) > Closeness(pgHist[k])

\* C18: Pattern selection.  generateTwoLetterPattern returns the first
\* attempt whose match count is in [3, 15]: no attempt in bounds is passed
\* over.  If no attempt is in bounds it returns after all its attempts, and
\* among the attempts with 2 or more matches it returns one that minimizes
\* |count - 9|, the earliest one among equally close attempts.
C18_PatternSelection ==
    PgCalled =>
        /\ pgPc = "loop" => \A k \in 1..Len(pgHist) : ~CountInBounds(pgHist[k])
        /\ pgPc = "done" =>
            /\ pgResult.matches = MatchesOf(pgWords, pgResult.patternArr)
            /\ IF \E k \in 1..Len(pgHist) : CountInBounds(pgHist[k])
               THEN /\ pgResult.patternArr = pgHist[Len(pgHist)]
                    /\ CountInBounds(pgResult.patternArr)
                    /\ \A k \in 1..(Len(pgHist) - 1) : ~CountInBounds(pgHist[k])
               ELSE /\ pgIterations = MAX_PATTERN_ATTEMPTS
                    /\ IF Len(pgHist) > 0
                       THEN pgResult.patternArr = pgHist[BestInHist]
                       ELSE pgPath = "lastResort"

\* No attempt was in bounds; three patterns with 2 or more matches came up,
\* the second and third equally close to 9 and closer than the first, and
\* the second was returned.
C18_Witness ==
    /\ PgCalled
    /\ pgPc = "done"
    /\ pgPath = "fallback"
    /\ Len(pgHist) = 3
    /\ Closeness(pgHist[2]) = Closeness(pgHist[3])
    /\ Closeness(pgHist[1]) > Closeness(pgHist[2])
    /\ pgResult.patternArr = pgHist[2]

\* buildBeePuzzle was called with a dictionary that has no word of exactly 7
\* distinct letters.
BeeWithoutSevenLetterWord ==
    /\ beeDict # 0
    /\ \A n \in 1..Len(BeeDictionaries[beeDict]) :
          LET w == BeeDictionaries[beeDict][n]
          IN  Cardinality({w[i] : i \in 1..Len(w)}) # 7

\* C19: generation unavailability is a value.  generateTwoLetterPattern on an
\* empty corpus never enters its loop and returns an empty pattern and an
\* empty match list; buildBeePuzzle on a dictionary without a word of exactly
\* 7 distinct letters builds no hive, never advances its attempt counter, and
\* returns null.
C19_GenerationUnavailable ==
    /\ (pgCorpus # 0 /\ Len(pgWords) = 0) =>
          /\ pgPc \in {"call", "done"}
          /\ pgIterations = 0
          /\ pgPc = "done" =>
                pgResult = [patternArr |-> <<>>, matches |-> <<>>]
    /\ BeeWithoutSevenLetterWord =>
          /\ beeAttempt = 0
          /\ beeHives = 0
          /\ beeBest = NoObject
          /\ beePc = "done" => beeResult = NoObject

\* generateTwoLetterPattern has returned for the empty corpus.
C19_Witness ==
    /\ pgCorpus # 0
    /\ Len(pgWords) = 0
    /\ pgPc = "done"
    /\ pgPath = "empty"

\* The search that was called has returned.
SearchReturned ==
    \/ pgCorpus # 0 /\ pgPc = "done"
    \/ beeDict # 0 /\ beePc = "done"

\* C20: Termination.  Both randomized searches return, whatever the input
\* and the random choices: generateTwoLetterPattern enters its loop body at
\* most 5000 times and buildBeePuzzle at most 600 times before it returns.
C20_SearchesTerminate ==
    /\ [](pgIterations <= 5000 /\ beeIterations <= 600)
    /\ <>SearchReturned

\* buildBeePuzzle returned its best hive after 600 passes, none of which
\* was accepted.
C20_Witness ==
    /\ beeDict # 0
    /\ beePc = "done"
    /\ beeIterations = 600
    /\ beeResult # NoObject

PickReturned == pickCorpus # 0 /\ pickPc = "done"

\* C21, as stated: starting a Quordle round or a Streakle round returns for
\* every non-empty corpus, under fair random choice.
C21_InitializationTerminates == <>PickReturned

\* The number of different words of the corpus of the start.
PickDistinct == Cardinality({pickWords[k] : k \in 1..Len(pickWords)})

\* The start of a round returns, under fair random choice, when the corpus
\* has 4 different words or more, and with fewer it never returns.
C21_TerminatesIffFourWords ==
    /\ (pickCorpus # 0 /\ PickDistinct >= 4) ~> PickReturned
    /\ [](PickReturned => PickDistinct >= 4)

\* A Quordle start has picked every word of a corpus of fewer than 4
\* different words and is still in its loop.
C21_Witness ==
    /\ pickCorpus # 0
    /\ pickPc = "quordle"
    /\ PickDistinct < QUORDLE_BOARDS
    /\ Len(pickPicked) = PickDistinct
    /\ pickTick = 1

\* buildBeePuzzle has returned a puzzle.
BeeBuilt == beeDict # 0 /\ beePc = "done" /\ beeResult # NoObject

\* The puzzle buildBeePuzzle returned, and the dictionary it was built from.
BuiltHive == beeResult[1]

BuiltDictionary == BeeDictionaries[beeDict]

SeqSet(s) == {s[i] : i \in 1..Len(s)}

\* C22: every puzzle buildBeePuzzle returns has exactly 7 letters, no two
\* the same, a center that is one of them, and as valid words exactly the
\* dictionary words of 4 letters or more that contain the center and use only
\* the 7 letters, at most 100 of them.
C22_HiveStructure ==
    BeeBuilt =>
        /\ Len(BuiltHive.letters) = 7
        /\ Cardinality(SeqSet(BuiltHive.letters)) = 7
        /\ BuiltHive.center \in SeqSet(BuiltHive.letters)
        /\ SeqSet(BuiltHive.valid) =
               {w \in SeqSet(BuiltDictionary) :
                   /\ Len(w) >= 4
                   /\ BuiltHive.center \in SeqSet(w)
                   /\ SeqSet(w) \subseteq SeqSet(BuiltHive.letters)}
        /\ Cardinality(SeqSet(BuiltHive.valid)) = Len(BuiltHive.valid)
        /\ Len(BuiltHive.valid) <= 100

\* A returned puzzle built from a dictionary that also has a word of the
\* hive's letters without the center, and words that make other centers too
\* dense.
C22_Witness ==
    /\ BeeBuilt
    /\ Len(BuiltHive.valid) >= 1
    /\ \E w \in SeqSet(BuiltDictionary) :
           /\ SeqSet(w) \subseteq SeqSet(BuiltHive.letters)
           /\ BuiltHive.center \notin SeqSet(w)

\* C23: in every puzzle buildBeePuzzle returns, the pangrams are exactly the
\* valid words that contain all 7 letters of the hive.
C23_PangramSet ==
    BeeBuilt =>
        /\ SeqSet(BuiltHive.pangrams) =
               {w \in SeqSet(BuiltHive.valid) :
                   SeqSet(BuiltHive.letters) \subseteq SeqSet(w)}
        /\ Cardinality(SeqSet(BuiltHive.pangrams)) = Len(BuiltHive.pangrams)

\* A returned puzzle with a pangram, and with a valid word of 7 letters or
\* more that is not a pangram.
C23_Witness ==
    /\ BeeBuilt
    /\ Len(BuiltHive.pangrams) >= 1
    /\ \E w \in SeqSet(BuiltHive.valid) :
           /\ Len(w) >= 7
           /\ ~(SeqSet(BuiltHive.letters) \subseteq SeqSet(w))

\* The hive meets the conditions under which buildBeePuzzle returns at once.
BeeQualifies(h) ==
    Len(h.valid) <= 100 /\ Len(h.valid) >= 12 /\ Len(h.pangrams) >= 1

\* The dictionary of the call has base words, and none of the hives that can
\* be built from it is returned at once.
BeeUnfavorable ==
    /\ beeDict # 0
    /\ Len(CandidateTable[beeDict]) > 0
    /\ \A h \in HiveTable[beeDict] : ~BeeQualifies(h)

\* buildBeePuzzle has returned a puzzle without a pangram.
BeePangramless == BeeBuilt /\ Len(BuiltHive.pangrams) = 0

\* C24, as stated: under an unfavorable dictionary buildBeePuzzle uses up its
\* 600 attempts and returns a best puzzle whose pangram set is empty.
C24_PangramlessResult == BeeUnfavorable ~> BeePangramless

\* C24, amended: the best puzzle tracked and every puzzle returned, after 600
\* attempts or earlier, has a pangram: a base word of the dictionary whose
\* letters are the 7 letters of the hive.
C24_ResultHasPangram ==
    /\ BeeBuilt =>
           \E w \in SeqSet(BuiltHive.pangrams) :
               /\ w \in SeqSet(CandidateTable[beeDict])
               /\ SeqSet(w) = SeqSet(BuiltHive.letters)
    /\ (beeDict # 0 /\ beeBest # NoObject) => Len(beeBest[1].pangrams) >= 1
    /\ ~BeePangramless

\* Under an unfavorable dictionary buildBeePuzzle has used up its 600
\* attempts and returned its best puzzle, which has fewer than 12 words.
C24_Witness ==
    /\ BeeUnfavorable
    /\ BeeBuilt
    /\ beeAttempt = 600
    /\ beeResult = beeBest
    /\ Len(BuiltHive.valid) < 12
    /\ Len(BuiltHive.pangrams) >= 1

\* The largest number of valid words among the hives within the cap that the
\* call has built so far.
LargestTracked ==
    CHOOSE n \in {Len(h.valid) : h \in beeFirsts} :
        \A h \in beeFirsts : Len(h.valid) <= n

BuilderReturnsBuildResult ==
    (beeDict # 0 /\ beePc = "done") => beeResult \in BuildTable[beeDict]

\* A hive is on the screen.
BeePlaying == beeLetters # Null /\ beeCenterLetter # Null

\* The word lacks the center letter, has a letter that is none of the hive
\* letters, or has fewer than 4 letters.
BeeBadWord(raw) ==
    \/ Len(raw) < 4
    \/ beeCenterLetter \notin SeqSet(raw)
    \/ ~(SeqSet(raw) \subseteq SeqSet(beeLetters))

\* C25: a submit of a word that lacks the center letter, has a letter
\* outside the 7 hive letters or is shorter than 4 letters is rejected with
\* a message and leaves the found words as they were, whether the word is
\* in the dictionary or not.
C25_BeeMembership ==
    [][\A raw \in BeeTyped :
          (BeePlaying /\ BeeBadWord(raw) /\ handleBeeSubmit(raw)) =>
              /\ beeFoundWords' = beeFoundWords
              /\ lastOp' = "rejected"
              /\ beeMessage' \in {"tooShort", "noCenter", "outsideLetter"}]_vars

\* A word of the dictionary with a letter outside the hive has just been
\* rejected, after a word was found.
C25_Witness ==
    /\ BeePlaying
    /\ Len(beeLetters) = 7
    /\ lastOp = "rejected"
    /\ Includes(BeeDictionaries[beeDict], beeRaw)
    /\ ~(SeqSet(beeRaw) \subseteq SeqSet(beeLetters))
    /\ beeCenterLetter \in SeqSet(beeRaw)
    /\ Len(beeFoundWords) >= 1

\* Every valid word of the hive has been found.
BeeComplete == BeePlaying /\ Len(beeFoundWords) = Len(beeValidWords)

\* The found words that are pangrams.
BeeFoundPangrams ==
    SelectSeq(beeFoundWords, LAMBDA w : Includes(beePangrams, w))

\* C26: the found words never hold a word twice and are all valid words of
\* the hive, so there are no more of them than valid words, and no more
\* found pangrams than pangrams; when every valid word has been found a
\* submit is still taken, and whatever the word it is rejected and leaves
\* the found words as they were.
C26_BeeSession ==
    /\ [](/\ Cardinality(SeqSet(beeFoundWords)) = Len(beeFoundWords)
          /\ SeqSet(beeFoundWords) \subseteq SeqSet(beeValidWords)
          /\ Len(beeFoundWords) <= Len(beeValidWords)
          /\ Len(BeeFoundPangrams) <= Len(beePangrams)
          /\ BeeComplete => \A raw \in BeeTyped : ENABLED handleBeeSubmit(raw))
    /\ [][\A raw \in BeeTyped :
             (BeeComplete /\ handleBeeSubmit(raw)) =>
                 /\ beeFoundWords' = beeFoundWords
                 /\ lastOp' = "rejected"
                 /\ beeRaw' = raw]_vars

\* Every valid word of a hive with two of them or more has been found, one
\* of them a pangram, and a submit of a word found before has just been
\* rejected.
C26_Witness ==
    /\ BeeComplete
    /\ Len(beeFoundWords) >= 2
    /\ Len(BeeFoundPangrams) >= 1
    /\ lastOp = "rejected"
    /\ beeMessage = "alreadyFound"
    /\ Includes(beeFoundWords, beeRaw)

(***************************************************************************)
(* Keyboard hints: wordleLetterStates and quordleLetterStates               *)
(***************************************************************************)
\* Variant of HintStep in which the latest status of a letter is its hint.
HintStepLatest(prev, status) == status

\* The update of states[letter], with prev its value before, for one entry
\* of a feedback row
HintStep(prev, status) ==
    IF status = "correct" THEN "correct"
    ELSE IF status = "present"
    THEN (IF prev # "correct" THEN "present" ELSE prev)
    ELSE IF status = "absent"
    THEN (IF prev = Undefined THEN "absent" ELSE prev)
    ELSE prev

\* HintStep of each value of states[letter] and each status, computed once
HintStepTable ==
    LET values == {Undefined, "absent", "present", "correct"}
    IN  [prev \in values |-> [status \in values |-> HintStep(prev, status)]]

\* (rows[rowIndex] || [])[i]
StatusAt(rows, rowIndex, i) ==
    IF rowIndex \in DOMAIN rows /\ i \in DOMAIN rows[rowIndex]
    THEN rows[rowIndex][i]
    ELSE Undefined

\* states[letter] when the two loops of wordleLetterStates have gone through
\* the rows before rowIndex and the first i letters of the guess of rowIndex;
\* an entry of another letter, or without a status, leaves it as it is.
RECURSIVE LetterHint(_, _, _, _, _)
LetterHint(guesses, results, rowIndex, i, letter) ==
    IF rowIndex = 0 THEN Undefined
    ELSE IF i = 0
    THEN LetterHint(guesses, results, rowIndex - 1,
                    IF rowIndex = 1 THEN 0 ELSE Len(guesses[rowIndex - 1]),
                    letter)
    ELSE IF guesses[rowIndex][i] = letter
    THEN HintStepTable[LetterHint(guesses, results, rowIndex, i - 1, letter)]
                      [StatusAt(results, rowIndex, i)]
    ELSE LetterHint(guesses, results, rowIndex, i - 1, letter)

\* states, with undefined for a letter that has no entry
LetterStates(guesses, results) ==
    [l \in Letters |->
        LetterHint(guesses, results, Len(guesses),
                   IF Len(guesses) = 0 THEN 0 ELSE Len(guesses[Len(guesses)]),
                   l)]

wordleLetterStates == LetterStates(wordleGuesses, wordleResults)

\* quordleResults[boardIndex] || []
BoardRows(results, boardIndex) ==
    IF boardIndex \in DOMAIN results THEN results[boardIndex] ELSE <<>>

\* states[letter][boardIndex] is read and written only in the pass of the
\* board loop for boardIndex, with the status of that board's row, so for
\* each board the loops are those of wordleLetterStates over its rows.
QuordleLetterStates(guesses, results) ==
    [l \in Letters |->
        [b \in 1..QUORDLE_BOARDS |->
            LetterStates(guesses, BoardRows(results, b))[l]]]

quordleLetterStates == QuordleLetterStates(quordleGuesses, quordleResults)

\* The guesses typed in the rounds in which the hints are followed: two
\* words of the corpus that share the letter E, one of them with E twice.
HintTyped == {words[3], words[4]}

NextHints ==
    \/ startNewWordleGame
    \/ \E raw \in HintTyped : handleWordleSubmit(raw)
    \/ startNewQuordleGame
    \/ \E raw \in HintTyped : handleQuordleSubmit(raw)

\* rounds of Wordle and of Quordle, with the hints of the keyboard
InitHints == \E mode \in {"wordle", "quordle"} : InitMode(mode)

SpecHints == InitHints /\ [][NextHints]_vars

\* absent < present < correct, and below them a letter without a hint
HintRank(status) ==
    CASE status = "correct" -> 3
      [] status = "present" -> 2
      [] status = "absent" -> 1
      [] OTHER -> 0

\* The largest rank among the entries of the rows for the letter.
MaxRankSeen(guesses, rows, letter) ==
    LET seen == {HintRank(rows[r][i]) :
                    <<r, i>> \in {p \in (1..Len(guesses)) \X (1..WORD_LEN) :
                                     guesses[p[1]][p[2]] = letter}}
    IN  IF seen = {} THEN 0
        ELSE CHOOSE n \in seen : \A k \in seen : k <= n

\* The hints of Wordle, and of each board of Quordle from the rows of that
\* board, are the largest feedback seen for the letter.
HintsAreMaxima ==
    /\ \A l \in Letters :
           HintRank(wordleLetterStates[l]) =
               MaxRankSeen(wordleGuesses, wordleResults, l)
    /\ \A l \in Letters : \A b \in 1..QUORDLE_BOARDS :
           HintRank(quordleLetterStates[l][b]) =
               MaxRankSeen(quordleGuesses, BoardRows(quordleResults, b), l)

\* A guess accepted in the round does not lower a hint.
HintsNotLowered ==
    /\ (gameMode = "wordle" /\ lastOp' = "accepted") =>
           \A l \in Letters :
               HintRank(LetterStates(wordleGuesses', wordleResults')[l]) >=
                   HintRank(wordleLetterStates[l])
    /\ (gameMode = "quordle" /\ lastOp' = "accepted") =>
           \A l \in Letters : \A b \in 1..QUORDLE_BOARDS :
               HintRank(QuordleLetterStates(quordleGuesses',
                                            quordleResults')[l][b]) >=
                   HintRank(quordleLetterStates[l][b])

\* C27: over the accepted guesses of a round, the hint of a letter, for each
\* board of Quordle from the feedback of that board alone, is the largest
\* under absent < present < correct of the feedback entries seen for the
\* letter, and a later accepted guess never lowers it.
C27_HintMonotonicity == []HintsAreMaxima /\ [][HintsNotLowered]_vars

\* A Quordle round in which a letter has been scored correct and, in a
\* later guess, present or absent on the same board, and in which a letter
\* has different hints on two boards.
C27_Witness ==
    /\ gameMode = "quordle"
    /\ lastOp = "accepted"
    /\ Len(quordleGuesses) = 2
    /\ \E l \in Letters : \E b \in 1..QUORDLE_BOARDS : \E i, j \in 1..WORD_LEN :
           /\ quordleGuesses[1][i] = l /\ quordleResults[b][1][i] = "correct"
           /\ quordleGuesses[2][j] = l /\ quordleResults[b][2][j] # "correct"
           /\ quordleLetterStates[l][b] = "correct"
    /\ \E l \in Letters : \E b, c \in 1..QUORDLE_BOARDS :
           quordleLetterStates[l][b] # quordleLetterStates[l][c]

\* s is the beginning of t.
IsPrefix(s, t) == Len(s) <= Len(t) /\ SubSeq(t, 1, Len(s)) = s

\* The rows of each board begin with the rows the board had.
RowsKept(results, newResults) ==
    \A b \in DOMAIN results :
        b \in DOMAIN newResults /\ IsPrefix(results[b], newResults[b])

\* An accepted guess is put at the end of the log of its round, with one
\* row for it on each board, after the guesses and the rows that were there.
GuessAppended ==
    lastOp' = "accepted" =>
        /\ gameMode = "wordle" =>
               /\ \A raw \in TypedWords :
                      handleWordleSubmit(raw) =>
                          wordleGuesses' = Append(wordleGuesses, raw)
               /\ Len(wordleGuesses') = Len(wordleGuesses) + 1
               /\ IsPrefix(wordleResults, wordleResults')
               /\ Len(wordleResults') = Len(wordleGuesses')
        /\ gameMode = "quordle" =>
               /\ \A raw \in TypedWords :
                      handleQuordleSubmit(raw) =>
                          quordleGuesses' = Append(quordleGuesses, raw)
               /\ Len(quordleGuesses') = Len(quordleGuesses) + 1
               /\ RowsKept(quordleResults, quordleResults')
               /\ \A b \in DOMAIN quordleResults' :
                      Len(quordleResults'[b]) = Len(quordleGuesses')
        /\ gameMode = "streakle" =>
               /\ \A raw \in TypedWords :
                      handleStreakleSubmit(raw) =>
                          streakleGuesses' = Append(streakleGuesses, raw)
               /\ Len(streakleGuesses') = Len(streakleGuesses) + 1
               /\ RowsKept(streakleResults, streakleResults')
               /\ \A t \in DOMAIN streakleResults' :
                      Len(streakleResults'[t]) = Len(streakleGuesses')

\* A step that is not the start of a round and accepts no guess leaves the
\* logs as they are.
LogKept ==
    lastOp' \notin {"new", "accepted"} =>
        UNCHANGED <<wordleGuesses, wordleResults, quordleGuesses,
                    quordleResults, streakleGuesses, streakleResults>>

\* C28: within a round of Wordle, Quordle or Streakle an accepted guess
\* extends the log by that guess at the end and leaves the earlier guesses
\* and their feedback rows as they were; until a new round starts the log
\* does not shrink and is not reordered.
C28_AppendOnlyLog == [][GuessAppended /\ LogKept]_vars

\* A second guess or a later one has just been accepted in a round of
\* Quordle, after another word.
C28_Witness ==
    /\ gameMode = "quordle"
    /\ lastOp = "accepted"
    /\ Len(quordleGuesses) >= 3
    /\ quordleGuesses[1] # quordleGuesses[3]
    /\ \A b \in Boards : Len(quordleResults[b]) = Len(quordleGuesses)

\* rows has one row for each guess, the score of the guess against answer.
RowsAreScores(rows, guesses, answer) ==
    /\ Len(rows) = Len(guesses)
    /\ \A i \in 1..Len(guesses) : rows[i] = Score(guesses[i], answer)

\* C31: in every state of a round the feedback is parallel to the guess
\* log: in Wordle row i is the score of guess i against the answer; in
\* Quordle and Streakle every board or target, active or not, has one row
\* for each guess, the score of that guess against its answer.
C31_FeedbackParallel ==
    /\ wordleAnswer # Null =>
           RowsAreScores(wordleResults, wordleGuesses, wordleAnswer)
    /\ quordleAnswers # Null =>
           /\ DOMAIN quordleResults = Boards
           /\ \A b \in Boards :
                  RowsAreScores(quordleResults[b], quordleGuesses,
                                quordleAnswers[b])
    /\ streakleTargets # Null =>
           /\ DOMAIN streakleResults = Targets
           /\ \A t \in Targets :
                  RowsAreScores(streakleResults[t], streakleGuesses,
                                streakleTargets[t])

\* A Streakle round with three guesses or more in which the rows of a
\* target that is not the active one differ from the rows of the active
\* target.
C31_Witness ==
    /\ StreakleActive
    /\ Len(streakleGuesses) >= 3
    /\ \E t \in Targets :
           /\ t # streakleCurrentIndex + 1
           /\ streakleResults[t] # streakleResults[streakleCurrentIndex + 1]
           /\ Len(streakleResults[t]) = Len(streakleGuesses)

\* The guess a Streakle target was first solved by: the number of guesses
\* of the log up to the first one equal to the target, 0 when there is none.
SolvedAtGuess(t) ==
    IF \E i \in 1..Len(streakleGuesses) : streakleGuesses[i] = streakleTargets[t]
    THEN CHOOSE i \in 1..Len(streakleGuesses) :
             /\ streakleGuesses[i] = streakleTargets[t]
             /\ \A j \in 1..(i - 1) : streakleGuesses[j] # streakleTargets[t]
    ELSE 0

\* C32: a winning guess on the last allowed attempt ends the session as
\* Won, not Lost: after an accepted 6th Wordle guess equal to the answer,
\* an accepted 9th Quordle guess that leaves every win flag set, or an
\* accepted 8th Streakle guess that leaves every target solved, the
\* session is finished and its message is the one of a win.
C32_LastAttemptWin ==
    lastOp = "accepted" =>
        /\ ( /\ gameMode = "wordle"
             /\ Len(wordleGuesses) = WORDLE_MAX_GUESSES
             /\ Last(wordleGuesses) = wordleAnswer )
           => (wordleDone /\ wordleMessage = "solved")
        /\ ( /\ gameMode = "quordle"
             /\ Len(quordleGuesses) = QUORDLE_MAX_GUESSES
             /\ \A b \in Boards :
                    \E i \in 1..Len(quordleGuesses) :
                        quordleGuesses[i] = quordleAnswers[b] )
           => (quordleDone /\ quordleMessage = "solved")
        /\ ( /\ gameMode = "streakle"
             /\ Len(streakleGuesses) = STREAKLE_MAX_GUESSES
             /\ \A t \in Targets : SolvedAtGuess(t) > 0 )
           => (streakleDone /\ streakleMessage = "solved")

\* A Streakle session whose last target was solved by the 8th guess and by
\* no earlier one, and which ended as a win.
C32_Witness ==
    /\ gameMode = "streakle"
    /\ streakleTargets # Null
    /\ lastOp = "accepted"
    /\ Len(streakleGuesses) = STREAKLE_MAX_GUESSES
    /\ \A t \in Targets : SolvedAtGuess(t) > 0
    /\ SolvedAtGuess(STREAKLE_TARGETS) = STREAKLE_MAX_GUESSES
    /\ streakleDone
    /\ streakleMessage = "solved"

\* A Wordle session won by its 6th guess.
C32_WordleReached ==
    /\ gameMode = "wordle" /\ lastOp = "accepted"
    /\ Len(wordleGuesses) = WORDLE_MAX_GUESSES
    /\ Last(wordleGuesses) = wordleAnswer
    /\ \A i \in 1..5 : wordleGuesses[i] # wordleAnswer
    /\ wordleMessage = "solved"

\* A Quordle session won by its 9th guess.
C32_QuordleReached ==
    /\ gameMode = "quordle" /\ lastOp = "accepted"
    /\ Len(quordleGuesses) = QUORDLE_MAX_GUESSES
    /\ \E b \in Boards : \A i \in 1..8 : quordleGuesses[i] # quordleAnswers[b]
    /\ quordleMessage = "solved"

\* C33: in every state of a Wordle, Quordle or Streakle round the terminal
\* flag is set exactly when every answer is solved or the guess count has
\* reached the budget (6, 9, 8); so no "no guesses left" rejection ever
\* happens, and no rejected Streakle submit leaves the terminal flag set.
C33_TerminalFlag ==
    /\ wordleAnswer # Null =>
           /\ wordleDone <=>
                 \/ Includes(wordleGuesses, wordleAnswer)
                 \/ Len(wordleGuesses) = WORDLE_MAX_GUESSES
           /\ wordleMessage # "noGuessesLeft"
    /\ quordleAnswers # Null =>
           /\ quordleDone <=>
                 \/ \A b \in Boards : Includes(quordleGuesses, quordleAnswers[b])
                 \/ Len(quordleGuesses) = QUORDLE_MAX_GUESSES
           /\ quordleMessage # "noGuessesLeft"
    /\ streakleTargets # Null =>
           /\ streakleDone <=>
                 \/ \A t \in Targets : Includes(streakleGuesses, streakleTargets[t])
                 \/ Len(streakleGuesses) = STREAKLE_MAX_GUESSES
           /\ streakleMessage # "noGuessesLeft"
           /\ ~(lastOp = "rejected" /\ streakleDone)

\* A Quordle session that used its 9 guesses with a board unsolved, and a
\* later submit that was dropped at the test of the terminal flag.
C33_Witness ==
    /\ gameMode = "quordle"
    /\ quordleAnswers # Null
    /\ quordleDone
    /\ Len(quordleGuesses) = QUORDLE_MAX_GUESSES
    /\ \E b \in Boards : ~Includes(quordleGuesses, quordleAnswers[b])
    /\ lastOp = "ignored"
    /\ quordleMessage = "outOfGuesses"

\* C34: in every Streakle state that is not terminal the active index is
\* the lowest index of an unsolved target, every target before it being
\* solved; and within a round the active index never decreases.
C34_ActiveIsLowestUnsolved ==
    /\ []((StreakleActive /\ ~streakleDone) =>
             /\ streakleCurrentIndex \in 0..(STREAKLE_TARGETS - 1)
             /\ ~streakleSolved[streakleCurrentIndex + 1]
             /\ \A t \in 1..streakleCurrentIndex : streakleSolved[t])
    /\ [][(StreakleActive /\ lastOp' # "new") =>
             streakleCurrentIndex' >= streakleCurrentIndex]_vars

\* A session in progress whose third target was solved out of order, then
\* the first one: the second target is the active one.
C34_Witness ==
    /\ StreakleActive
    /\ ~streakleDone
    /\ lastOp = "accepted"
    /\ streakleCurrentIndex = 1
    /\ streakleSolved[1]
    /\ streakleSolved[3]
    /\ Last(streakleGuesses) = streakleTargets[1]

\* C35: Streakle locks never block the solution.  Every locked letter of
\* the locked pattern is the active target's letter at that position, so in
\* every state that is not terminal a submit of the active target passes
\* the lock check and is accepted.
C35_LocksAllowSolution ==
    /\ []((StreakleActive /\ ~streakleDone) =>
             /\ \A i \in 1..Len(streakleLockedPattern) :
                    streakleLockedPattern[i] \in {"_", ActiveTarget[i]}
             /\ ActiveTarget \in TypedWords
             /\ ~LockViolated(ActiveTarget))
    /\ [][(StreakleActive /\ ~streakleDone
             /\ handleStreakleSubmit(ActiveTarget)) =>
               /\ lastOp' = "accepted"
               /\ Last(streakleGuesses') = ActiveTarget]_vars

\* The active target was accepted while four of its positions were locked.
C35_Witness ==
    /\ StreakleActive
    /\ lastOp = "accepted"
    /\ Len(streakleGuesses) >= 3
    /\ LET n == Len(streakleGuesses)
           t == CHOOSE u \in Targets :
                    /\ ~Includes(SubSeq(streakleGuesses, 1, n - 1), streakleTargets[u])
                    /\ \A v \in 1..(u - 1) :
                           Includes(SubSeq(streakleGuesses, 1, n - 1), streakleTargets[v])
       IN  /\ streakleGuesses[n] = streakleTargets[t]
           /\ Cardinality({i \in 1..WORD_LEN :
                  \E g \in 1..(n - 1) :
                      streakleGuesses[g][i] = streakleTargets[t][i]}) >= 4

\* C36: a fresh Streakle round is never terminal and never pre-solved.
\* Right after the start of a round none of the 3 solved flags is set, the
\* active index is 0, the session is in progress and 7 guesses remain.
C36_FreshRound ==
    (gameMode = "streakle" /\ lastOp = "new") =>
        /\ streakleTargets # Null
        /\ streakleSolved = [t \in Targets |-> FALSE]
        /\ streakleCurrentIndex = 0
        /\ streakleDone = FALSE
        /\ STREAKLE_MAX_GUESSES - Len(streakleGuesses) = 7
        /\ streakleMessage = "autoPlayed"

\* A fresh round whose start word shares a letter, in place, with the
\* first target.
C36_Witness ==
    /\ gameMode = "streakle"
    /\ lastOp = "new"
    /\ streakleTargets # Null
    /\ streakleCurrentIndex = 0
    /\ ~streakleDone
    /\ \E i \in 1..WORD_LEN : streakleStartWord[i] = streakleTargets[1][i]
    /\ streakleStartWord # streakleTargets[1]

\* C37: exact count of coloured letters.  For a guess and an answer of the
\* same length and every letter L, the positions of the guess that hold L
\* and are marked correct or present are exactly as many as the smaller of
\* the occurrences of L in the guess and in the answer.
C37_ColouredCount ==
    (sPc = "done" /\ Len(sGuess) = Len(sAnswer)) =>
        \A L \in Letters :
            Coloured(sGuess, sResult, L) =
                Min(Occurrences(sGuess, L), Occurrences(sAnswer, L))

\* A returned row for a guess that holds one letter more often than the
\* answer does and another letter less often, neither of them in place.
C37_Witness ==
    /\ sPc = "done"
    /\ Len(sGuess) = Len(sAnswer)
    /\ \E L, M \in Letters :
          /\ Occurrences(sGuess, L) > Occurrences(sAnswer, L)
          /\ Occurrences(sAnswer, L) > 0
          /\ Occurrences(sGuess, M) > 0
          /\ Occurrences(sGuess, M) < Occurrences(sAnswer, M)
          /\ \A i \in Positions(sGuess) :
                 sGuess[i] \in {L, M} => sResult[i] # "correct"

\* The hives the call has kept: the tracked ones, best and the result.
BeeKept == beeFirsts \cup SeqSet(beeBest) \cup SeqSet(beeResult)

\* The words of the dictionary that h can have been built from.
BaseWordsOf(h) ==
    {w \in SeqSet(CandidateTable[beeDict]) : SeqSet(w) = SeqSet(h.letters)}

\* C38: in every build attempt that passes the density cap the base word
\* the hive was built from is one of its valid words and one of its
\* pangrams, so every tracked hive has a pangram, and a puzzle returned
\* after the 600 attempts were used up has fewer than 12 valid words.
C38_BaseWordIsPangram ==
    beeDict # 0 =>
        /\ \A h \in BeeKept :
               /\ Len(h.valid) <= BEE_MAX_WORDS
               /\ BaseWordsOf(h) # {}
               /\ BaseWordsOf(h) \subseteq SeqSet(h.valid)
               /\ BaseWordsOf(h) \subseteq SeqSet(h.pangrams)
               /\ Len(h.pangrams) >= 1
        /\ (beePc = "done" /\ beeAttempt = MAX_BEE_ATTEMPTS
                /\ beeResult # NoObject) =>
               Len(beeResult[1].valid) < BEE_MIN_VALID

\* The 600 attempts were used up and the puzzle returned has fewer than 12
\* valid words, its base word among them, while hives of two sizes or more
\* were tracked on the way.
C38_Witness ==
    /\ beeDict # 0
    /\ beePc = "done"
    /\ beeAttempt = MAX_BEE_ATTEMPTS
    /\ beeResult # NoObject
    /\ Len(beeResult[1].valid) < BEE_MIN_VALID
    /\ Len(beeResult[1].valid) >= 2
    /\ BaseWordsOf(beeResult[1]) # {}
    /\ BaseWordsOf(beeResult[1]) \subseteq SeqSet(beeResult[1].pangrams)
    /\ Cardinality(beeFirsts) >= 2

\* The word has the letter of every concrete slot of the pattern.
FitsSlots(w, patternArr) ==
    /\ Len(w) = Len(patternArr)
    /\ \A i \in ConcreteSlots(patternArr) : w[i] = patternArr[i]

\* C39: for every corpus that is not empty, of words of one length, the
\* match list generateTwoLetterPattern returns is exactly the words of the
\* corpus, in corpus order, that match the returned pattern, and it is not
\* empty because it holds the word the pattern was derived from.
C39_MatchListExact ==
    PgReturned =>
        /\ pgResult.matches =
               SelectSeq(pgWords, LAMBDA w : FitsSlots(w, pgResult.patternArr))
        /\ Len(pgResult.matches) >= 1
        /\ \E b \in 1..Len(pgWords) :
               /\ \A i \in ConcreteSlots(pgResult.patternArr) :
                      pgResult.patternArr[i] = pgWords[b][i]
               /\ Includes(pgResult.matches, pgWords[b])
        /\ pgPath = "lastResort" => Includes(pgResult.matches, pgWords[1])

\* A fallback was returned whose matches leave out a word of the corpus
\* that stands before one of them.
C39_Witness ==
    /\ PgReturned
    /\ pgPath = "fallback"
    /\ Len(pgResult.matches) >= 2
    /\ \E j, k \in 1..Len(pgWords) :
          /\ j < k
          /\ ~Includes(pgResult.matches, pgWords[j])
          /\ Includes(pgResult.matches, pgWords[k])

\* A pattern has been generated on the Pattern Hunt screen.
HuntPlaying == gameMode = "pattern" /\ huntPattern # NoObject

\* C40: Pattern Hunt session.  A submitted word is accepted only if it has
\* the pattern's length, matches the pattern, is in the corpus and was not
\* found before; after any sequence of submits the found list has no
\* duplicates and holds words of the match list only; and a rejected submit
\* leaves the found list as it was.
C40_PatternSession ==
    /\ [](HuntPlaying =>
             /\ Cardinality(SeqSet(foundWords)) = Len(foundWords)
             /\ SeqSet(foundWords) \subseteq SeqSet(solutions))
    /\ [][(HuntPlaying /\ lastOp' = "accepted") =>
             \E raw \in SeqSet(foundWords') \ SeqSet(foundWords) :
                 /\ SeqSet(foundWords') = SeqSet(foundWords) \cup {raw}
                 /\ Len(raw) = Len(huntPattern[1])
                 /\ FitsSlots(raw, huntPattern[1])
                 /\ raw \in SeqSet(words)]_vars
    /\ [][(HuntPlaying /\ lastOp' \in {"rejected", "noGame"}) =>
             foundWords' = foundWords]_vars

\* The last word of a match list of 3 words was just found.
C40_Witness ==
    /\ HuntPlaying
    /\ lastOp = "accepted"
    /\ patternMessage = "perfect"
    /\ Len(solutions) = 3
    /\ Len(foundWords) = 3
    /\ SeqSet(foundWords) = SeqSet(solutions)

====
